---- MODULE Spec2Model ----
(***************************************************************************)
(* Balto data-plane core: the per-backend circuit breaker                   *)
(* (internal/core/circuit), the backend flags and counters                  *)
(* (internal/core), and the backend pool (internal/core/backendpool).       *)
(*                                                                          *)
(* Time is counted in whole units of the configured timeout resolution;     *)
(* the wall clock starts at Epoch, far above every timeout, as UnixNano     *)
(* does.                                                                    *)
(***************************************************************************)
EXTENDS Integers, Sequences, FiniteSets, TLC

VARIABLES
    now,        \* time.Now().UnixNano(), in model time units
    brk,        \* one circuit.Breaker (fields of the struct and its cfg)
    pre,        \* the breaker as it was when the last call was made
    last,       \* the last call made on the breaker: its name, result and time
    hist,       \* call history counters the contracts are stated over
    pc,         \* per goroutine: the statement it is about to execute
    loc,        \* per goroutine: the locals of the call it is executing
    mu,         \* Breaker.mu: 0 when free, else the goroutine holding it
    heap,       \* the core.Backend objects created so far; a handle is an index
    pool,       \* one backendpool.Pool: config, backend list, balancer counter
    called,     \* the last call made on the pool: name, argument, result
    spent,      \* the number of calls made on the pool so far
    mem         \* the router package's objects: trie nodes, children maps,
                \* Routes, Routers and the published Router pointer

seqVars == <<pre, last, hist>>
goVars == <<pc, loc, mu>>
poolVars == <<heap, pool, called, spent>>
routerVars == <<mem>>
vars == <<now, brk, pre, last, hist, pc, loc, mu, heap, pool, called, spent, mem>>

----------------------------------------------------------------------------
(* Bounds of the model *)

MaxFailureThreshold == 2    \* cfg.FailureThreshold is drawn from 0..MaxFailureThreshold
MaxSuccessThreshold == 2    \* cfg.SuccessThreshold is drawn from 0..MaxSuccessThreshold
MaxTimeout == 1             \* cfg.Timeout is drawn from 0..MaxTimeout
MaxHalfOpen == 1            \* cfg.MaxHalfOpenRequests is drawn from 0..MaxHalfOpen
MaxTime == 6                \* the clock runs from Epoch to Epoch + MaxTime
NumCallers == 3             \* goroutines calling into one breaker concurrently
MaxHealthThreshold == 2     \* PoolConfig.HealthThreshold is drawn from 0..MaxHealthThreshold
MaxCalls == 3               \* calls made on the pool in one run
MaxRecoveryThreshold == 2   \* PoolConfig.ProbeRecoveryThreshold is drawn from 0..MaxRecoveryThreshold
MaxProbeThreshold == 1      \* PoolConfig.ProbeHealthThreshold is drawn from 0..MaxProbeThreshold
MaxProbes == 6              \* probe results and failures reported on one backend in one run
MaxAdds == 2                \* Router.Add calls in one run
MaxPoolTime == 3            \* the pool's clock runs from Epoch to Epoch + MaxPoolTime

----------------------------------------------------------------------------
(* circuit.go: constants *)

Closed == 0
Open == 1
HalfOpen == 2

DefaultFailureThreshold == 5
DefaultSuccessThreshold == 5
DefaultTimeout == 10
DefaultMaxHalfOpenRequests == 3
BackoffCap == 10

increaseTimeout == 0
resetTimeout == 1

\* A uint32 is held as its 32-bit pattern read as a two's-complement integer:
\* the patterns below zero are the values from 2^31 to 2^32-1, so that
\* 0 - 1 is the pattern -1, the value 2^32-1.  The comparison is unsigned.
U32Value(x) == IF x < 0 THEN <<1, x>> ELSE <<0, x>>

U32Less(x, y) ==
    \/ U32Value(x)[1] < U32Value(y)[1]
    \/ U32Value(x)[1] = U32Value(y)[1] /\ x < y

U32Dec(x) == x - 1

U32Inc(x) == x + 1

Epoch == BackoffCap * DefaultTimeout * BackoffCap

RawConfigs ==
    [FailureThreshold : 0..MaxFailureThreshold,
     SuccessThreshold : 0..MaxSuccessThreshold,
     Timeout : 0..MaxTimeout,
     MaxHalfOpenRequests : 0..MaxHalfOpen]

----------------------------------------------------------------------------
(* circuit.go: the breaker, one call at a time *)

\* New: zero config fields take their defaults; the breaker starts Closed
\* with the base open-timeout; openTime and the counters are zero values.
New(cfg) ==
    LET c == [FailureThreshold |->
                 IF cfg.FailureThreshold = 0 THEN DefaultFailureThreshold
                 ELSE cfg.FailureThreshold,
              SuccessThreshold |->
                 IF cfg.SuccessThreshold = 0 THEN DefaultSuccessThreshold
                 ELSE cfg.SuccessThreshold,
              Timeout |->
                 IF cfg.Timeout = 0 THEN DefaultTimeout ELSE cfg.Timeout,
              MaxHalfOpenRequests |->
                 IF cfg.MaxHalfOpenRequests = 0 THEN DefaultMaxHalfOpenRequests
                 ELSE cfg.MaxHalfOpenRequests]
    IN  [state |-> Closed,
         openTime |-> 0,
         halfOpenInFlight |-> 0,
         openTimeout |-> c.Timeout,
         failures |-> 0,
         successes |-> 0,
         cfg |-> c]

\* Variant: the backoff triples instead of doubling.
adjustOpenTimeoutTriples(b, mode) ==
    LET base == IF b.cfg.Timeout <= 0 THEN DefaultTimeout ELSE b.cfg.Timeout
        current == IF b.openTimeout <= 0 THEN base ELSE b.openTimeout
        next == current * 3
        max == base * BackoffCap
    IN  IF mode = increaseTimeout
        THEN (IF next > max THEN max ELSE next)
        ELSE base

\* adjustOpenTimeoutLocked: the value stored into openTimeout.
adjustOpenTimeoutLocked(b, mode) ==
    LET base == IF b.cfg.Timeout <= 0 THEN DefaultTimeout ELSE b.cfg.Timeout
        current == IF b.openTimeout <= 0 THEN base ELSE b.openTimeout
        next == current * 2
        max == base * BackoffCap
    IN  IF mode = increaseTimeout
        THEN (IF next > max THEN max ELSE next)
        ELSE base

\* Variant: the half-open in-flight count and the success count survive
\* the transition.
transitionToOpenKeepsCounts(b, t) ==
    LET b1 == [b EXCEPT !.state = Open,
                        !.openTime = t,
                        !.failures = 0]
    IN  [b1 EXCEPT !.openTimeout = adjustOpenTimeoutLocked(b1, increaseTimeout)]

transitionToOpenLocked(b, t) ==
    LET b1 == [b EXCEPT !.state = Open,
                        !.openTime = t,
                        !.successes = 0,
                        !.failures = 0,
                        !.halfOpenInFlight = 0]
    IN  [b1 EXCEPT !.openTimeout = adjustOpenTimeoutLocked(b1, increaseTimeout)]

\* Variant: the open-timeout is left as it is on the way to HalfOpen.
transitionToHalfOpenKeepsTimeout(b) ==
    [b EXCEPT !.state = HalfOpen,
              !.openTime = 0,
              !.failures = 0,
              !.successes = 0,
              !.halfOpenInFlight = 0]

transitionToHalfOpenLocked(b) ==
    LET b1 == [b EXCEPT !.state = HalfOpen,
                        !.openTime = 0,
                        !.failures = 0,
                        !.successes = 0,
                        !.halfOpenInFlight = 0]
    IN  [b1 EXCEPT !.openTimeout = adjustOpenTimeoutLocked(b1, resetTimeout)]

transitionToClosedLocked(b) ==
    LET b1 == [b EXCEPT !.state = Closed,
                        !.failures = 0,
                        !.successes = 0,
                        !.halfOpenInFlight = 0]
    IN  [b1 EXCEPT !.openTimeout = adjustOpenTimeoutLocked(b1, resetTimeout)]

\* tryAcquireHalfOpenSlot: compare-and-increment bounded by the limit.
tryAcquireHalfOpenSlot(b) ==
    LET limit == IF b.cfg.MaxHalfOpenRequests = 0 THEN 1
                 ELSE b.cfg.MaxHalfOpenRequests
    IN  IF ~U32Less(b.halfOpenInFlight, limit)
        THEN [b |-> b, ok |-> FALSE]
        ELSE [b |-> [b EXCEPT !.halfOpenInFlight = U32Inc(@)], ok |-> TRUE]

\* releaseHalfOpenSlotLocked: halfOpenInFlight.Add(^uint32(0)), modulo 2^32.
releaseHalfOpenSlotLocked(b) ==
    [b EXCEPT !.halfOpenInFlight = U32Dec(@)]

\* checkAndTransitionOpen at time t.
checkAndTransitionOpen(b, t) ==
    LET timeout == IF b.openTimeout <= 0 THEN b.cfg.Timeout ELSE b.openTimeout
    IN  IF t - b.openTime <= timeout
        THEN [b |-> b, ok |-> FALSE]
        ELSE IF b.state = Open
             THEN tryAcquireHalfOpenSlot(transitionToHalfOpenLocked(b))
             ELSE IF b.state = HalfOpen
                  THEN tryAcquireHalfOpenSlot(b)
                  ELSE [b |-> b, ok |-> FALSE]

Allow(b, t) ==
    IF b.state = Closed THEN [b |-> b, ok |-> TRUE]
    ELSE IF b.state = Open THEN checkAndTransitionOpen(b, t)
    ELSE IF b.state = HalfOpen THEN tryAcquireHalfOpenSlot(b)
    ELSE [b |-> b, ok |-> FALSE]

\* The success path shared by RecordSuccess and RecordProbeSuccess in
\* Closed and in HalfOpen.
successClosed(b) == [b EXCEPT !.failures = 0, !.successes = 0]

\* Variant: one success more than the threshold is needed to close.
successHalfOpenOffByOne(b) ==
    LET b1 == releaseHalfOpenSlotLocked(b)
        b2 == [b1 EXCEPT !.successes = @ + 1]
    IN  IF b2.successes > b2.cfg.SuccessThreshold
        THEN transitionToClosedLocked(b2)
        ELSE b2

successHalfOpen(b) ==
    LET b1 == releaseHalfOpenSlotLocked(b)
        b2 == [b1 EXCEPT !.successes = @ + 1]
    IN  IF b2.successes >= b2.cfg.SuccessThreshold
        THEN transitionToClosedLocked(b2)
        ELSE b2

\* Variant: a traffic success in Open starts recovery as a probe success does.
RecordSuccessRecoversOpen(b) ==
    IF b.state = Closed THEN successClosed(b)
    ELSE IF b.state = HalfOpen THEN successHalfOpen(b)
    ELSE IF b.state = Open THEN transitionToHalfOpenLocked(b)
    ELSE b

RecordSuccess(b) ==
    IF b.state = Closed THEN successClosed(b)
    ELSE IF b.state = HalfOpen THEN successHalfOpen(b)
    ELSE b

RecordProbeSuccess(b) ==
    IF b.state = Closed THEN successClosed(b)
    ELSE IF b.state = HalfOpen THEN successHalfOpen(b)
    ELSE IF b.state = Open THEN transitionToHalfOpenLocked(b)
    ELSE b

\* Variant: the breaker opens one failure late.
RecordFailureOffByOne(b, t) ==
    IF b.state = Closed
    THEN LET b1 == [b EXCEPT !.failures = @ + 1]
         IN  IF b1.failures > b1.cfg.FailureThreshold
             THEN transitionToOpenLocked(b1, t)
             ELSE b1
    ELSE IF b.state = HalfOpen
         THEN transitionToOpenLocked(releaseHalfOpenSlotLocked(b), t)
         ELSE b

RecordFailure(b, t) ==
    IF b.state = Closed
    THEN LET b1 == [b EXCEPT !.failures = @ + 1]
         IN  IF b1.failures >= b1.cfg.FailureThreshold
             THEN transitionToOpenLocked(b1, t)
             ELSE b1
    ELSE IF b.state = HalfOpen
         THEN transitionToOpenLocked(releaseHalfOpenSlotLocked(b), t)
         ELSE b

----------------------------------------------------------------------------
(* circuit.go: Allow as the atomic steps of one goroutine *)

Callers == 1..NumCallers

NoLocals == [s |-> Closed, tnow |-> 0, openedAt |-> 0, cur |-> 0, res |-> FALSE]

Limit == IF brk.cfg.MaxHalfOpenRequests = 0 THEN 1 ELSE brk.cfg.MaxHalfOpenRequests

\* Return from Allow with result r.
Return(g, r) ==
    /\ pc' = [pc EXCEPT ![g] = "done"]
    /\ loc' = [loc EXCEPT ![g] = [NoLocals EXCEPT !.res = r]]

Goto(g, label) == pc' = [pc EXCEPT ![g] = label]

\* Allow, line 80: s := State(b.state.Load()), and the dispatch on s.
AllowLoadState(g) ==
    /\ pc[g] = "idle"
    /\ IF brk.state = Closed THEN Return(g, TRUE)
       ELSE IF brk.state = Open
            THEN Goto(g, "now") /\ loc' = [loc EXCEPT ![g].s = Open]
            ELSE Goto(g, "acquire") /\ loc' = [loc EXCEPT ![g].s = HalfOpen]
    /\ UNCHANGED <<now, brk, mu>>

\* checkAndTransitionOpen, line 221: now := time.Now().UnixNano().
CheckNow(g) ==
    /\ pc[g] = "now"
    /\ Goto(g, "openedAt")
    /\ loc' = [loc EXCEPT ![g].tnow = now]
    /\ UNCHANGED <<now, brk, mu>>

\* line 222: openedAt := b.openTime.Load().
CheckLoadOpenTime(g) ==
    /\ pc[g] = "openedAt"
    /\ Goto(g, "timeout")
    /\ loc' = [loc EXCEPT ![g].openedAt = brk.openTime]
    /\ UNCHANGED <<now, brk, mu>>

\* lines 224-231: timeout := b.openTimeout.Load(), and the elapsed test.
CheckLoadTimeout(g) ==
    /\ pc[g] = "timeout"
    /\ LET timeout == IF brk.openTimeout <= 0 THEN brk.cfg.Timeout
                      ELSE brk.openTimeout
       IN  IF loc[g].tnow - loc[g].openedAt <= timeout
           THEN Return(g, FALSE)
           ELSE Goto(g, "cas") /\ UNCHANGED loc
    /\ UNCHANGED <<now, brk, mu>>

\* line 234: b.state.CompareAndSwap(Open, HalfOpen).
CheckCAS(g) ==
    /\ pc[g] = "cas"
    /\ IF brk.state = Open
       THEN brk' = [brk EXCEPT !.state = HalfOpen] /\ Goto(g, "lock")
       ELSE UNCHANGED brk /\ Goto(g, "reload")
    /\ UNCHANGED <<now, loc, mu>>

\* line 237: b.mu.Lock().
CheckLock(g) ==
    /\ pc[g] = "lock"
    /\ mu = 0
    /\ mu' = g
    /\ Goto(g, "ho_state")
    /\ UNCHANGED <<now, brk, loc>>

\* transitionToHalfOpenLocked, line 183: b.state.Store(HalfOpen).
HalfOpenStoreState(g) ==
    /\ pc[g] = "ho_state"
    /\ brk' = [brk EXCEPT !.state = HalfOpen]
    /\ Goto(g, "ho_openTime")
    /\ UNCHANGED <<now, loc, mu>>

\* lines 184-186: b.openTime.Store(0) and the two mutex-guarded counters.
HalfOpenStoreOpenTime(g) ==
    /\ pc[g] = "ho_openTime"
    /\ brk' = [brk EXCEPT !.openTime = 0, !.failures = 0, !.successes = 0]
    /\ Goto(g, "ho_inFlight")
    /\ UNCHANGED <<now, loc, mu>>

\* line 187: b.halfOpenInFlight.Store(0).
HalfOpenStoreInFlight(g) ==
    /\ pc[g] = "ho_inFlight"
    /\ brk' = [brk EXCEPT !.halfOpenInFlight = 0]
    /\ Goto(g, "ho_timeout")
    /\ UNCHANGED <<now, loc, mu>>

\* line 188: b.adjustOpenTimeoutLocked(resetTimeout); openTimeout is only
\* written with the mutex held.
HalfOpenStoreTimeout(g) ==
    /\ pc[g] = "ho_timeout"
    /\ brk' = [brk EXCEPT !.openTimeout = adjustOpenTimeoutLocked(brk, resetTimeout)]
    /\ Goto(g, "unlock")
    /\ UNCHANGED <<now, loc, mu>>

\* line 239: b.mu.Unlock(); line 243 follows.
CheckUnlock(g) ==
    /\ pc[g] = "unlock"
    /\ mu = g
    /\ mu' = 0
    /\ Goto(g, "acquire")
    /\ UNCHANGED <<now, brk, loc>>

\* line 248: State(b.state.Load()) == HalfOpen && ...
CheckReloadState(g) ==
    /\ pc[g] = "reload"
    /\ IF brk.state = HalfOpen
       THEN Goto(g, "acquire") /\ UNCHANGED loc
       ELSE Return(g, FALSE)
    /\ UNCHANGED <<now, brk, mu>>

\* tryAcquireHalfOpenSlot, lines 206-209: cur := load, and the limit test.
AcquireLoad(g) ==
    /\ pc[g] = "acquire"
    /\ IF ~U32Less(brk.halfOpenInFlight, Limit)
       THEN Return(g, FALSE)
       ELSE Goto(g, "acquire_cas")
            /\ loc' = [loc EXCEPT ![g].cur = brk.halfOpenInFlight]
    /\ UNCHANGED <<now, brk, mu>>

\* lines 210-212: CompareAndSwap(cur, cur+1); a failed swap loops.
AcquireCAS(g) ==
    /\ pc[g] = "acquire_cas"
    /\ IF brk.halfOpenInFlight = loc[g].cur
       THEN brk' = [brk EXCEPT !.halfOpenInFlight = U32Inc(loc[g].cur)]
            /\ Return(g, TRUE)
       ELSE UNCHANGED brk /\ Goto(g, "acquire") /\ UNCHANGED loc
    /\ UNCHANGED <<now, mu>>

----------------------------------------------------------------------------
(* core.go: Backend flags and metadata; backendpool: the Pool *)

FlagHealthy == 1
FlagDraining == 2

DefaultProbeRecoveryThreshold == 5

\* State & flag != 0, State | flag and State &^ flag on the flag bitmask.
HasFlag(x, flag) == (x \div flag) % 2 = 1

OrFlag(x, flag) == IF HasFlag(x, flag) THEN x ELSE x + flag

AndNotFlag(x, flag) == IF HasFlag(x, flag) THEN x - flag ELSE x

IsHealthy(b) == HasFlag(b.State, FlagHealthy)

IsDraining(b) == HasFlag(b.State, FlagDraining)

\* Backend.SetHealthy: the value swapped in for the value old, and whether
\* the healthy bit changed.
\* Variant: the new word is built from the argument alone.
SetHealthyWordClobbers(old, healthy) == IF healthy THEN FlagHealthy ELSE 0

SetHealthyWord(old, healthy) ==
    IF healthy THEN OrFlag(old, FlagHealthy) ELSE AndNotFlag(old, FlagHealthy)

SetHealthy(b, healthy) ==
    LET old == b.State
        newState == SetHealthyWord(old, healthy)
    IN  [b |-> [b EXCEPT !.State = newState],
         changed |-> HasFlag(old, FlagHealthy) # HasFlag(newState, FlagHealthy)]

SetDrainingWord(old, draining) ==
    IF draining THEN OrFlag(old, FlagDraining) ELSE AndNotFlag(old, FlagDraining)

SetDraining(b, draining) ==
    [b EXCEPT !.State = SetDrainingWord(@, draining)]

\* BackendMetadata; the LastSuccess and LastFailure timestamps are only ever
\* written by the modelled code and are left out.
NewMeta ==
    [PassiveFailCount |-> 0, ProbeFailCount |-> 0, ProbeSuccessCount |-> 0,
     ActiveConns |-> 0, TotalRequests |-> 0, TempWeight |-> 0]

MetaRecordSuccess(m) == [m EXCEPT !.TotalRequests = @ + 1]

MetaRecordPassiveFailure(m) ==
    [m EXCEPT !.TotalRequests = @ + 1, !.PassiveFailCount = @ + 1]

MetaRecordProbeFailure(m) == [m EXCEPT !.ProbeFailCount = @ + 1]

ResetAllFailCounts(m) == [m EXCEPT !.PassiveFailCount = 0, !.ProbeFailCount = 0]

IncrementProbeSuccessCount(m) == [m EXCEPT !.ProbeSuccessCount = @ + 1]

ResetProbeSuccessCount(m) == [m EXCEPT !.ProbeSuccessCount = 0]

\* Pool.Add, lines 101-107: the breaker config taken from the pool config.
CircuitConfig(cfg) ==
    [FailureThreshold |-> cfg.CircuitFailureThreshold,
     SuccessThreshold |-> cfg.CircuitSuccessThreshold,
     Timeout |-> cfg.CircuitTimeout,
     MaxHalfOpenRequests |-> cfg.CircuitMaxHalfOpenRequests]

NewBackend(id, weight, cbCfg) ==
    SetHealthy([ID |-> id, Weight |-> weight, State |-> 0, Meta |-> NewMeta,
                Circuit |-> New(cbCfg)], TRUE).b

passiveThreshold(cfg) == cfg.HealthThreshold

\* Variant: no fallback to the passive threshold.
probeThresholdNoFallback(cfg) == cfg.ProbeHealthThreshold

probeThreshold(cfg) ==
    IF cfg.ProbeHealthThreshold # 0 THEN cfg.ProbeHealthThreshold
    ELSE passiveThreshold(cfg)

\* Variant: a traffic success restarts the passive failure count.
PoolRecordSuccessResetsCount(cfg, b) ==
    [b EXCEPT !.Meta = [MetaRecordSuccess(@) EXCEPT !.PassiveFailCount = 0],
              !.Circuit = RecordSuccess(@)]

\* Variant: a traffic success brings an unhealthy backend back.
PoolRecordSuccessRevives(cfg, b) ==
    LET b1 == [b EXCEPT !.Meta = MetaRecordSuccess(@),
                        !.Circuit = RecordSuccess(@)]
    IN  IF ~IsHealthy(b1) THEN SetHealthy(b1, TRUE).b ELSE b1

\* Pool.RecordSuccess
PoolRecordSuccess(cfg, b) ==
    [b EXCEPT !.Meta = MetaRecordSuccess(@), !.Circuit = RecordSuccess(@)]

\* Pool.RecordFailure at time t: the backend, and whether BackendDown was
\* logged.
PoolRecordFailure(cfg, b, t) ==
    LET b1 == [b EXCEPT !.Meta = MetaRecordPassiveFailure(@),
                        !.Circuit = RecordFailure(@, t)]
        threshold == passiveThreshold(cfg)
    IN  IF threshold = 0 THEN [b |-> b1, logged |-> FALSE]
        ELSE IF b1.Meta.PassiveFailCount >= threshold
             THEN LET r == SetHealthy(b1, FALSE)
                  IN  [b |-> r.b, logged |-> r.changed]
             ELSE [b |-> b1, logged |-> FALSE]

\* Pool.CheckHealth
PoolCheckHealth(cfg, b) ==
    IF \/ b.Meta.PassiveFailCount >= passiveThreshold(cfg)
       \/ b.Meta.ProbeFailCount >= probeThreshold(cfg)
    THEN SetHealthy(b, FALSE).b
    ELSE b

\* Pool.ResetHealth
PoolResetHealth(b) ==
    SetHealthy([b EXCEPT !.Meta = ResetAllFailCounts(@)], TRUE).b

\* Variant: recovery one probe success late.
PoolMarkHealthyLate(cfg, b) ==
    LET b1 == [b EXCEPT !.Meta = IncrementProbeSuccessCount(ResetAllFailCounts(@)),
                        !.Circuit = RecordProbeSuccess(@)]
        recoveryThreshold ==
            IF cfg.ProbeRecoveryThreshold = 0 THEN DefaultProbeRecoveryThreshold
            ELSE cfg.ProbeRecoveryThreshold
    IN  IF b1.Meta.ProbeSuccessCount > recoveryThreshold /\ ~IsHealthy(b1)
        THEN SetHealthy(b1, TRUE).b
        ELSE b1

\* Pool.MarkHealthy
PoolMarkHealthy(cfg, b) ==
    LET b1 == [b EXCEPT !.Meta = IncrementProbeSuccessCount(ResetAllFailCounts(@)),
                        !.Circuit = RecordProbeSuccess(@)]
        recoveryThreshold ==
            IF cfg.ProbeRecoveryThreshold = 0 THEN DefaultProbeRecoveryThreshold
            ELSE cfg.ProbeRecoveryThreshold
    IN  IF b1.Meta.ProbeSuccessCount >= recoveryThreshold /\ ~IsHealthy(b1)
        THEN SetHealthy(b1, TRUE).b
        ELSE b1

\* Pool.MarkUnhealthy at time t
PoolMarkUnhealthy(cfg, b, t) ==
    LET b1 == [b EXCEPT !.Meta = ResetProbeSuccessCount(MetaRecordProbeFailure(@)),
                        !.Circuit = RecordFailure(@, t)]
    IN  IF b1.Meta.ProbeFailCount >= probeThreshold(cfg)
        THEN SetHealthy(b1, FALSE).b
        ELSE b1

\* balancer.filterCandidates over a list of handles
filterCandidates(hp, list) ==
    SelectSeq(list, LAMBDA h : IsHealthy(hp[h]) /\ ~IsDraining(hp[h]))

\* RoundRobin.Next (balancer/rr.go): the handle chosen (0 for nil) and the
\* counter afterwards.
RoundRobinNext(counter, hp, backends) ==
    LET candidates == filterCandidates(hp, backends)
        idx == counter + 1
    IN  IF Len(candidates) = 0
        THEN [chosen |-> 0, counter |-> counter]
        ELSE [chosen |-> candidates[(idx % Len(candidates)) + 1],
              counter |-> idx]

\* Pool.Next, lines 169-178: the filter loop.  Allow is called on every
\* healthy, non-draining backend in list order and may change its breaker.
RECURSIVE filterAllowed(_, _, _, _)
filterAllowed(list, hp, t, candidates) ==
    IF list = <<>> THEN [heap |-> hp, candidates |-> candidates]
    ELSE LET h == Head(list)
             b == hp[h]
         IN  IF ~IsHealthy(b) \/ IsDraining(b)
             THEN filterAllowed(Tail(list), hp, t, candidates)
             ELSE LET r == Allow(b.Circuit, t)
                      hp1 == [hp EXCEPT ![h].Circuit = r.b]
                  IN  filterAllowed(Tail(list), hp1, t,
                                    IF r.ok THEN Append(candidates, h)
                                    ELSE candidates)

\* Variant: the list goes to the balancer without asking the breakers.
PoolNextSkipsBreaker(p, hp, t) ==
    LET r == RoundRobinNext(p.counter, hp, p.backends)
    IN  [heap |-> hp, counter |-> r.counter, chosen |-> r.chosen]

\* Pool.Next at time t: the heap and balancer counter afterwards and the
\* handle returned (0 for nil).
PoolNext(p, hp, t) ==
    IF Len(p.backends) = 0
    THEN [heap |-> hp, counter |-> p.counter, chosen |-> 0]
    ELSE LET f == filterAllowed(p.backends, hp, t, <<>>)
         IN  IF Len(f.candidates) = 0
             THEN [heap |-> f.heap, counter |-> p.counter, chosen |-> 0]
             ELSE LET r == RoundRobinNext(p.counter, f.heap, f.candidates)
                  IN  [heap |-> f.heap, counter |-> r.counter,
                       chosen |-> r.chosen]

\* The position of the first backend with the given ID, 0 when absent.
IndexOfID(hp, list, id) ==
    LET hits == {i \in 1..Len(list) : hp[list[i]].ID = id}
    IN  IF hits = {} THEN 0 ELSE CHOOSE i \in hits : \A j \in hits : i <= j

\* filterSlice: the list without position idx.
filterSlice(list, idx) ==
    SubSeq(list, 1, idx - 1) \o SubSeq(list, idx + 1, Len(list))

----------------------------------------------------------------------------
(* Specification Spec: one breaker, calls made one at a time *)

\* History counters: streak is the number of RecordFailure calls made in
\* Closed since the last success call; trial is the number of success calls
\* made since the breaker last entered HalfOpen.
histAfter(op, b0, b1) ==
    [streak |->
        IF op \in {"RecordSuccess", "RecordProbeSuccess"} THEN 0
        ELSE IF op = "RecordFailure" /\ b0.state = Closed THEN hist.streak + 1
        ELSE hist.streak,
     trial |->
        IF b0.state # HalfOpen
        THEN 0
        ELSE IF op \in {"RecordSuccess", "RecordProbeSuccess"}
             THEN hist.trial + 1
             ELSE hist.trial]

\* NewRouter() and nothing else: no node, no map, no Route; Router 1 has no
\* host and is the one held by both atomic pointers, the package variable
\* current of the router and the field router of the Proxy.
NoRouter ==
    mem = [nodes |-> <<>>, maps |-> <<>>, routes |-> <<>>,
           routers |-> <<[hosts |-> [k \in {} |-> 0],
                          healthcheckers |-> [k \in {} |-> 0]]>>,
           current |-> 1, proxy |-> 1]

\* The pool is not part of this specification.
NoPool ==
    /\ heap = <<>>
    /\ pool = [config |-> 0, backends |-> <<>>, counter |-> 0]
    /\ called = [op |-> "none", arg |-> 0, res |-> 0]
    /\ spent = 0
    /\ NoRouter

Call(op, b1, res) ==
    /\ brk' = b1
    /\ pre' = brk
    /\ last' = [op |-> op, res |-> res, at |-> now]
    /\ hist' = histAfter(op, brk, b1)
    /\ now' = now
    /\ UNCHANGED <<goVars, poolVars, routerVars>>

Init ==
    /\ now = Epoch
    /\ \E cfg \in RawConfigs : brk = New(cfg)
    /\ pre = brk
    /\ last = [op |-> "New", res |-> TRUE, at |-> now]
    /\ hist = [streak |-> 0, trial |-> 0]
    /\ pc = [g \in Callers |-> "idle"]
    /\ loc = [g \in Callers |-> NoLocals]
    /\ mu = 0
    /\ NoPool

Tick ==
    /\ now < Epoch + MaxTime
    /\ now' = now + 1
    /\ UNCHANGED <<brk, pre, last, hist>>
    /\ UNCHANGED <<goVars, poolVars, routerVars>>

DoAllow ==
    LET r == Allow(brk, now) IN Call("Allow", r.b, r.ok)

DoRecordSuccess == Call("RecordSuccess", RecordSuccess(brk), TRUE)

DoRecordProbeSuccess == Call("RecordProbeSuccess", RecordProbeSuccess(brk), TRUE)

DoRecordFailure == Call("RecordFailure", RecordFailure(brk, now), TRUE)

Next ==
    \/ Tick
    \/ DoAllow
    \/ DoRecordSuccess
    \/ DoRecordProbeSuccess
    \/ DoRecordFailure

Spec == Init /\ [][Next]_vars

----------------------------------------------------------------------------
(* Contracts of the breaker, under Spec *)

SuccessOps == {"RecordSuccess", "RecordProbeSuccess"}

\* The open-timeout had not elapsed when the last call was made.
NotElapsedAtCall == last.at - pre.openTime <= pre.openTimeout

\* C1: counted from Closed, the RecordFailure call that completes a run of
\* FailureThreshold failures with no success call between them leaves the
\* breaker Open, and a shorter run leaves it Closed; Allow returns true in
\* Closed, and returns false (leaving the breaker Open) while the
\* open-timeout has not elapsed.
C1_OpensAtFailureThreshold ==
    /\ brk.state = Closed => hist.streak < brk.cfg.FailureThreshold
    /\ (last.op = "RecordFailure" /\ pre.state = Closed) =>
          brk.state = (IF hist.streak >= brk.cfg.FailureThreshold
                       THEN Open ELSE Closed)
    /\ (last.op = "Allow" /\ pre.state = Closed) =>
          (last.res = TRUE /\ brk.state = Closed)
    /\ (last.op = "Allow" /\ pre.state = Open /\ NotElapsedAtCall) =>
          (last.res = FALSE /\ brk.state = Open)

\* An Allow call denied by a breaker that a run of two or more failures
\* opened.
C1_Witness ==
    /\ last.op = "Allow" /\ pre.state = Open /\ NotElapsedAtCall
    /\ last.res = FALSE
    /\ hist.streak = brk.cfg.FailureThreshold
    /\ brk.cfg.FailureThreshold >= 2

\* C3: in HalfOpen fewer than SuccessThreshold successes have been recorded
\* since HalfOpen was entered; a success call made in HalfOpen leaves the
\* breaker HalfOpen below the threshold and Closed, with the open-timeout
\* at the configured base, when it reaches the threshold.
C3_ClosesAtSuccessThreshold ==
    /\ brk.state = HalfOpen => hist.trial < brk.cfg.SuccessThreshold
    /\ (last.op \in SuccessOps /\ pre.state = HalfOpen) =>
          IF hist.trial >= brk.cfg.SuccessThreshold
          THEN brk.state = Closed /\ brk.openTimeout = brk.cfg.Timeout
          ELSE brk.state = HalfOpen

\* The second of two successes closes a breaker whose threshold is two.
C3_Witness ==
    /\ last.op \in SuccessOps /\ pre.state = HalfOpen
    /\ hist.trial = 2 /\ brk.cfg.SuccessThreshold = 2
    /\ brk.state = Closed

\* C4: in Open a RecordSuccess call changes nothing, and a
\* RecordProbeSuccess call moves the breaker to HalfOpen whether or not the
\* open-timeout has elapsed.
C4_OnlyProbeSuccessLeavesOpen ==
    /\ (last.op = "RecordSuccess" /\ pre.state = Open) => brk = pre
    /\ (last.op = "RecordProbeSuccess" /\ pre.state = Open) =>
          brk.state = HalfOpen

\* A probe success before the open-timeout has elapsed.
C4_Witness ==
    /\ last.op = "RecordProbeSuccess" /\ pre.state = Open
    /\ NotElapsedAtCall
    /\ brk.state = HalfOpen

\* C5: a RecordFailure call made in HalfOpen leaves the breaker Open with
\* the success count, the failure count and the half-open in-flight count
\* at zero.
C5_HalfOpenFailureReopens ==
    (last.op = "RecordFailure" /\ pre.state = HalfOpen) =>
        /\ brk.state = Open
        /\ brk.successes = 0
        /\ brk.failures = 0
        /\ brk.halfOpenInFlight = 0

\* The failure follows a counted success, with a second trial in flight.
C5_Witness ==
    /\ last.op = "RecordFailure" /\ pre.state = HalfOpen
    /\ pre.successes >= 1
    /\ pre.halfOpenInFlight >= 2
    /\ brk.state = Open

Min(x, y) == IF x <= y THEN x ELSE y

\* C6: the open-timeout stays between the base timeout and ten times the
\* base; a call that moves the breaker into Open stores twice the
\* open-timeout it found, or ten times the base if that is less.
C6_BackoffDoublesCapped ==
    /\ brk.cfg.Timeout <= brk.openTimeout
    /\ brk.openTimeout <= 10 * brk.cfg.Timeout
    /\ (pre.state # Open /\ brk.state = Open) =>
          brk.openTimeout = Min(2 * pre.openTimeout, 10 * brk.cfg.Timeout)

\* A reopening from HalfOpen, with the open-timeout doubled.
C6_Witness ==
    /\ last.op = "RecordFailure" /\ pre.state = HalfOpen
    /\ brk.state = Open
    /\ brk.openTimeout = 2 * pre.openTimeout


----------------------------------------------------------------------------
(* Specification SpecAllow: after the open-timeout has elapsed in Open,     *)
(* NumCallers goroutines call Allow once each, concurrently, and no outcome *)
(* is recorded.  The breaker was opened by one RecordFailure at Epoch       *)
(* (FailureThreshold 1) and the clock has passed the open-timeout.          *)

InitAllow ==
    /\ \E cfg \in RawConfigs :
          /\ cfg.FailureThreshold = 1
          /\ cfg.Timeout # 0
          /\ brk = RecordFailure(New(cfg), Epoch)
    /\ now = Epoch + brk.openTimeout + 1
    /\ pre = brk
    /\ last = [op |-> "RecordFailure", res |-> TRUE, at |-> Epoch]
    /\ hist = [streak |-> 1, trial |-> 0]
    /\ pc = [g \in Callers |-> "idle"]
    /\ loc = [g \in Callers |-> NoLocals]
    /\ mu = 0
    /\ NoPool

NextAllow ==
    \/ \E g \in Callers : AllowLoadState(g) /\ UNCHANGED <<seqVars, poolVars, routerVars>>
    \/ \E g \in Callers : CheckNow(g) /\ UNCHANGED <<seqVars, poolVars, routerVars>>
    \/ \E g \in Callers : CheckLoadOpenTime(g) /\ UNCHANGED <<seqVars, poolVars, routerVars>>
    \/ \E g \in Callers : CheckLoadTimeout(g) /\ UNCHANGED <<seqVars, poolVars, routerVars>>
    \/ \E g \in Callers : CheckCAS(g) /\ UNCHANGED <<seqVars, poolVars, routerVars>>
    \/ \E g \in Callers : CheckLock(g) /\ UNCHANGED <<seqVars, poolVars, routerVars>>
    \/ \E g \in Callers : HalfOpenStoreState(g) /\ UNCHANGED <<seqVars, poolVars, routerVars>>
    \/ \E g \in Callers : HalfOpenStoreOpenTime(g) /\ UNCHANGED <<seqVars, poolVars, routerVars>>
    \/ \E g \in Callers : HalfOpenStoreInFlight(g) /\ UNCHANGED <<seqVars, poolVars, routerVars>>
    \/ \E g \in Callers : HalfOpenStoreTimeout(g) /\ UNCHANGED <<seqVars, poolVars, routerVars>>
    \/ \E g \in Callers : CheckUnlock(g) /\ UNCHANGED <<seqVars, poolVars, routerVars>>
    \/ \E g \in Callers : CheckReloadState(g) /\ UNCHANGED <<seqVars, poolVars, routerVars>>
    \/ \E g \in Callers : AcquireLoad(g) /\ UNCHANGED <<seqVars, poolVars, routerVars>>
    \/ \E g \in Callers : AcquireCAS(g) /\ UNCHANGED <<seqVars, poolVars, routerVars>>

SpecAllow == InitAllow /\ [][NextAllow]_vars

Admitted == {g \in Callers : pc[g] = "done" /\ loc[g].res}

AllReturned == \A g \in Callers : pc[g] = "done"

\* C2: when every caller has returned, exactly MaxHalfOpenRequests of the
\* calls (all of them, when there are fewer callers) have returned true.
C2_ExactlyMaxAdmitted ==
    AllReturned =>
        Cardinality(Admitted) = Min(brk.cfg.MaxHalfOpenRequests, NumCallers)

----------------------------------------------------------------------------
(* Specification SpecPool: one Pool with the round-robin balancer that      *)
(* Router.Add gives it, calls made one at a time.  Outcome calls take a     *)
(* Backend pointer, so they may be made on a backend already removed.       *)

IDs == {"a", "b"}

PoolConfigs ==
    [HealthThreshold : 0..MaxHealthThreshold,
     ProbeHealthThreshold : {0},
     ProbeRecoveryThreshold : {1},
     CircuitFailureThreshold : {1},
     CircuitSuccessThreshold : {1},
     CircuitTimeout : {1},
     CircuitMaxHalfOpenRequests : {1}]

Handles == 1..Len(heap)

\* History counters of one backend: run is the number of RecordFailure calls
\* made on it since its last RecordSuccess, sinceReset the number made since
\* its fail counters were last reset (MarkHealthy, ResetHealth) or since it
\* was created.
NoOutcomes == [run |-> 0, sinceReset |-> 0]

outcomesAfter(op, o) ==
    [run |-> IF op = "RecordFailure" THEN o.run + 1
             ELSE IF op = "RecordSuccess" THEN 0
             ELSE o.run,
     sinceReset |-> IF op = "RecordFailure" THEN o.sinceReset + 1
                    ELSE IF op \in {"MarkHealthy", "ResetHealth"} THEN 0
                    ELSE o.sinceReset]

\* The pool starts as Router.Add leaves it: created with a configuration and
\* filled by one Add per entry of ids; no request has been served yet.
Fleets == {<<>>, <<"a">>, <<"a", "b">>, <<"a", "a">>}

InitPool ==
    /\ now = Epoch
    /\ NoRouter
    /\ \E cfg \in PoolConfigs, ids \in Fleets :
          /\ heap = [i \in 1..Len(ids) |->
                        NewBackend(ids[i], 1, CircuitConfig(cfg))]
          /\ pool = [config |-> cfg, backends |-> [i \in 1..Len(ids) |-> i],
                     counter |-> 0]
          /\ hist = [i \in 1..Len(ids) |-> NoOutcomes]
    /\ called = [op |-> "New", arg |-> 0, res |-> 0]
    /\ spent = 0
    /\ brk = New([FailureThreshold |-> 0, SuccessThreshold |-> 0,
                  Timeout |-> 0, MaxHalfOpenRequests |-> 0])
    /\ pre = brk
    /\ last = [op |-> "New", res |-> TRUE, at |-> Epoch]
    /\ pc = [g \in Callers |-> "idle"]
    /\ loc = [g \in Callers |-> NoLocals]
    /\ mu = 0

PoolFrame == UNCHANGED <<brk, pre, last, goVars, routerVars>>

\* One more call on the pool, recorded in called.
PoolCall(op, arg, res) ==
    /\ spent < MaxCalls
    /\ spent' = spent + 1
    /\ called' = [op |-> op, arg |-> arg, res |-> res]
    /\ PoolFrame

\* The clock is read only to stamp and to age an Open breaker, so it is
\* advanced only while some breaker is Open.
PoolTick ==
    /\ now < Epoch + MaxPoolTime
    /\ \E h \in Handles : heap[h].Circuit.state = Open
    /\ now' = now + 1
    /\ called' = [op |-> "Tick", arg |-> 0, res |-> 0]
    /\ UNCHANGED <<heap, pool, spent, hist>>
    /\ PoolFrame

\* Pool.Add(id, u, 1)
CallAdd(id) ==
    /\ heap' = Append(heap, NewBackend(id, 1, CircuitConfig(pool.config)))
    /\ pool' = [pool EXCEPT !.backends = Append(@, Len(heap) + 1)]
    /\ hist' = Append(hist, NoOutcomes)
    /\ PoolCall("Add", id, Len(heap) + 1)
    /\ UNCHANGED now

\* Pool.Remove(id)
CallRemove(id) ==
    /\ LET idx == IndexOfID(heap, pool.backends, id)
       IN  /\ pool' = IF idx = 0 THEN pool
                      ELSE [pool EXCEPT !.backends = filterSlice(@, idx)]
           /\ PoolCall("Remove", id, idx)
    /\ UNCHANGED <<now, heap, hist>>

\* Pool.StartDraining(id)
CallStartDraining(id) ==
    /\ LET idx == IndexOfID(heap, pool.backends, id)
       IN  /\ heap' = IF idx = 0 THEN heap
                      ELSE [heap EXCEPT ![pool.backends[idx]] =
                                            SetDraining(@, TRUE)]
           /\ PoolCall("StartDraining", id, idx)
    /\ UNCHANGED <<now, pool, hist>>

\* Pool.Next()
CallNext ==
    /\ LET r == PoolNext(pool, heap, now)
       IN  /\ heap' = r.heap
           /\ pool' = [pool EXCEPT !.counter = r.counter]
           /\ PoolCall("Next", 0, r.chosen)
    /\ UNCHANGED <<now, hist>>

\* An outcome call on backend h that leaves it as b1.
Outcome(op, h, b1, res) ==
    /\ heap' = [heap EXCEPT ![h] = b1]
    /\ hist' = [hist EXCEPT ![h] = outcomesAfter(op, @)]
    /\ PoolCall(op, h, res)
    /\ UNCHANGED <<now, pool>>

CallRecordSuccess(h) ==
    Outcome("RecordSuccess", h, PoolRecordSuccess(pool.config, heap[h]), 0)

CallRecordFailure(h) ==
    LET r == PoolRecordFailure(pool.config, heap[h], now)
    IN  Outcome("RecordFailure", h, r.b, IF r.logged THEN 1 ELSE 0)

CallCheckHealth(h) ==
    Outcome("CheckHealth", h, PoolCheckHealth(pool.config, heap[h]), 0)

CallResetHealth(h) ==
    Outcome("ResetHealth", h, PoolResetHealth(heap[h]), 0)

CallMarkHealthy(h) ==
    Outcome("MarkHealthy", h, PoolMarkHealthy(pool.config, heap[h]), 0)

CallMarkUnhealthy(h) ==
    Outcome("MarkUnhealthy", h, PoolMarkUnhealthy(pool.config, heap[h], now), 0)

\* The pool under request traffic: selection, the outcomes the proxy reports,
\* a probe success, and changes to the list.
NextPool ==
    \/ PoolTick
    \/ \E id \in IDs : CallAdd(id)
    \/ \E id \in IDs : CallRemove(id)
    \/ \E id \in IDs : CallStartDraining(id)
    \/ CallNext
    \/ \E h \in Handles : CallRecordSuccess(h)
    \/ \E h \in Handles : CallRecordFailure(h)
    \/ \E h \in Handles : CallMarkHealthy(h)

SpecPool == InitPool /\ [][NextPool]_vars

----------------------------------------------------------------------------
(* Pool.Next under SpecPool *)

InList(h) == \E i \in 1..Len(pool.backends) : pool.backends[i] = h

\* Backend h would pass the filter of Pool.Next now.
Eligible(h) ==
    /\ IsHealthy(heap[h])
    /\ ~IsDraining(heap[h])
    /\ Allow(heap[h].Circuit, now).ok

\* The breaker of h is Open and its open-timeout has not elapsed.
OpenNotElapsed(h) ==
    /\ heap[h].Circuit.state = Open
    /\ now - heap[h].Circuit.openTime <= heap[h].Circuit.openTimeout

\* C7: a Next call returns none or a backend of the list that, as the call
\* found it, was healthy, not draining and admitted by its breaker; it returns
\* none when no backend of the list is all three; a backend whose breaker is
\* Open with the open-timeout not elapsed is never returned.
C7_NextReturnsEligible ==
    [][called'.op = "Next" =>
          /\ called'.res # 0 =>
                /\ called'.res \in Handles
                /\ InList(called'.res)
                /\ Eligible(called'.res)
                /\ ~OpenNotElapsed(called'.res)
          /\ (\A h \in Handles : InList(h) => ~Eligible(h)) => called'.res = 0
      ]_vars

\* Next has returned one backend while another backend of the list has its
\* breaker Open.
C7_Witness ==
    /\ called.op = "Next"
    /\ called.res # 0
    /\ \E h \in Handles :
          /\ h # called.res
          /\ InList(h)
          /\ IsHealthy(heap[h])
          /\ heap[h].Circuit.state = Open

----------------------------------------------------------------------------
(* Specification SpecHealth: the health bookkeeping of one backend of a     *)
(* pool, under every call that reports an outcome or a probe result.        *)

InitHealth ==
    /\ InitPool
    /\ Len(heap) = 1

NextHealth ==
    \/ PoolTick
    \/ \E h \in Handles : CallRecordSuccess(h)
    \/ \E h \in Handles : CallRecordFailure(h)
    \/ \E h \in Handles : CallCheckHealth(h)
    \/ \E h \in Handles : CallResetHealth(h)
    \/ \E h \in Handles : CallMarkHealthy(h)
    \/ \E h \in Handles : CallMarkUnhealthy(h)

SpecHealth == InitHealth /\ [][NextHealth]_vars

----------------------------------------------------------------------------
(* The healthy flag under SpecHealth *)

FailureFlips(h) ==
    /\ called'.op = "RecordFailure"
    /\ called'.arg = h
    /\ IsHealthy(heap[h])
    /\ ~IsHealthy(heap'[h])

\* C10 as stated: RecordFailure flips a backend unhealthy only when the last
\* HealthThreshold traffic outcomes recorded for it were all failures.
C10_FlipNeedsConsecutiveFailures ==
    [][\A h \in Handles :
          FailureFlips(h) => hist'[h].run >= pool.config.HealthThreshold
      ]_vars

\* C10 amended: with HealthThreshold >= 1, a RecordFailure call on a healthy
\* backend flips it unhealthy exactly when the RecordFailure calls made on it
\* since its counters were last reset by MarkHealthy or ResetHealth (or since
\* it was created) number HealthThreshold or more; RecordSuccess calls in
\* between do not restart the count.
C10_FlipCountsSinceReset ==
    [][\A h \in Handles :
          /\ pool.config.HealthThreshold >= 1
          /\ called'.op = "RecordFailure"
          /\ called'.arg = h
          /\ IsHealthy(heap[h])
          => (~IsHealthy(heap'[h]) <=>
                 hist'[h].sinceReset >= pool.config.HealthThreshold)
      ]_vars

\* RecordFailure has just flipped a backend unhealthy although a RecordSuccess
\* was recorded since the first of the failures it counted.
C10_Witness ==
    /\ called.op = "RecordFailure"
    /\ called.res = 1
    /\ ~IsHealthy(heap[called.arg])
    /\ hist[called.arg].run < hist[called.arg].sinceReset

----------------------------------------------------------------------------
(* Specification SpecFail: NumCallers goroutines each call                  *)
(* Pool.RecordFailure once on the same backend, one atomic operation at a   *)
(* time, while the backend is put to draining and ResetHealth is called on  *)
(* it once.                                                                 *)

Resetter == 0

Goroutines == Callers \cup {Resetter}

FailLocals == [old |-> 0, tried |-> FALSE, res |-> FALSE]

\* Variant: the store of the new state word is not conditional on the word
\* still being the one loaded.
CompareAndSwapBlind(word, old, new) == [word |-> new, ok |-> TRUE]

\* atomic.Uint32.CompareAndSwap on a word: the word afterwards and whether
\* the swap happened.
CompareAndSwap(word, old, new) ==
    IF word = old THEN [word |-> new, ok |-> TRUE]
    ELSE [word |-> word, ok |-> FALSE]

InitFail ==
    /\ now = Epoch
    /\ NoRouter
    /\ \E cfg \in PoolConfigs :
          /\ heap = <<NewBackend("a", 1, CircuitConfig(cfg))>>
          /\ pool = [config |-> cfg, backends |-> <<1>>, counter |-> 0]
    /\ hist = [flips |-> 0]
    /\ called = [op |-> "New", arg |-> 0, res |-> 0]
    /\ spent = 0
    /\ pc = [g \in Goroutines |-> "idle"]
    /\ loc = [g \in Goroutines |-> FailLocals]
    /\ mu = 0
    /\ brk = New([FailureThreshold |-> 0, SuccessThreshold |-> 0,
                  Timeout |-> 0, MaxHalfOpenRequests |-> 0])
    /\ pre = brk
    /\ last = [op |-> "New", res |-> TRUE, at |-> Epoch]

FailFrame ==
    UNCHANGED <<now, brk, pre, last, mu, pool, called, spent, routerVars>>

\* The number of healthy-to-unhealthy flips of the backend so far.
flipsAfter(word0, word1) ==
    [flips |-> IF HasFlag(word0, FlagHealthy) /\ ~HasFlag(word1, FlagHealthy)
               THEN hist.flips + 1 ELSE hist.flips]

\* RecordFailure, line 204: b.Meta.RecordFailure()
FailMeta(g) ==
    /\ pc[g] = "idle"
    /\ heap' = [heap EXCEPT ![1].Meta = MetaRecordPassiveFailure(@)]
    /\ pc' = [pc EXCEPT ![g] = "circuit"]
    /\ UNCHANGED <<loc, hist>>
    /\ FailFrame

\* RecordFailure, line 206: b.Circuit.RecordFailure(), under the breaker's
\* mutex from start to end.
FailCircuit(g) ==
    /\ pc[g] = "circuit"
    /\ heap' = [heap EXCEPT ![1].Circuit = RecordFailure(@, now)]
    /\ pc' = [pc EXCEPT ![g] = "count"]
    /\ UNCHANGED <<loc, hist>>
    /\ FailFrame

\* RecordFailure, lines 208-216: the threshold and the load of the count.
FailLoadCount(g) ==
    /\ pc[g] = "count"
    /\ LET threshold == passiveThreshold(pool.config)
       IN  pc' = [pc EXCEPT ![g] =
                     IF threshold = 0 THEN "done"
                     ELSE IF heap[1].Meta.PassiveFailCount >= threshold
                          THEN "load"
                          ELSE "done"]
    /\ UNCHANGED <<heap, loc, hist>>
    /\ FailFrame

\* SetHealthy: old := b.State.Load()
SetHealthyLoad(g) ==
    /\ pc[g] = "load"
    /\ loc' = [loc EXCEPT ![g].old = heap[1].State, ![g].tried = TRUE]
    /\ pc' = [pc EXCEPT ![g] = "cas"]
    /\ UNCHANGED <<heap, hist>>
    /\ FailFrame

\* SetHealthy: the CompareAndSwap and, when it succeeds, the return; what is
\* returned to RecordFailure (Resetter: to ResetHealth) decides the log line.
SetHealthyCAS(g) ==
    /\ pc[g] = "cas"
    /\ LET newState == SetHealthyWord(loc[g].old, g = Resetter)
           r == CompareAndSwap(heap[1].State, loc[g].old, newState)
       IN  /\ heap' = [heap EXCEPT ![1].State = r.word]
           /\ hist' = flipsAfter(heap[1].State, r.word)
           /\ IF r.ok
              THEN /\ loc' = [loc EXCEPT ![g].res =
                                 HasFlag(loc[g].old, FlagHealthy) #
                                     HasFlag(newState, FlagHealthy)]
                   /\ pc' = [pc EXCEPT ![g] = "done"]
              ELSE /\ pc' = [pc EXCEPT ![g] = "load"]
                   /\ UNCHANGED loc
    /\ FailFrame

\* Pool.StartDraining on the backend, taken at the CompareAndSwap of
\* SetDraining that succeeds.
FailStartDraining ==
    /\ ~IsDraining(heap[1])
    /\ heap' = [heap EXCEPT ![1] = SetDraining(@, TRUE)]
    /\ UNCHANGED <<pc, loc, hist>>
    /\ FailFrame

\* ResetHealth, line 246: b.Meta.ResetAllFailCounts(); SetHealthy(true)
\* follows in the steps above.
ResetCounts ==
    /\ pc[Resetter] = "idle"
    /\ heap' = [heap EXCEPT ![1].Meta = ResetAllFailCounts(@)]
    /\ pc' = [pc EXCEPT ![Resetter] = "load"]
    /\ UNCHANGED <<loc, hist>>
    /\ FailFrame

NextFail ==
    \/ \E g \in Callers : FailMeta(g)
    \/ \E g \in Callers : FailCircuit(g)
    \/ \E g \in Callers : FailLoadCount(g)
    \/ \E g \in Goroutines : SetHealthyLoad(g)
    \/ \E g \in Goroutines : SetHealthyCAS(g)
    \/ FailStartDraining
    \/ ResetCounts

SpecFail == InitFail /\ [][NextFail]_vars

\* Callers past the increment of the passive count, callers returned, and
\* callers to which SetHealthy(false) returned true.
Counted == {g \in Callers : pc[g] # "idle"}

Returned == {g \in Callers : pc[g] = "done"}

Logged == {g \in Callers : loc[g].res}

\* C9: with HealthThreshold T >= 1 and the backend healthy with count 0 at the
\* start, and as long as ResetHealth has not been called: the backend is
\* healthy while fewer than T RecordFailure calls have counted, it is unhealthy
\* once T calls have returned, and it flips at most once.  With or without
\* ResetHealth, SetHealthy(false) has returned true to exactly as many
\* callers as there were healthy-to-unhealthy flips.
C9_ThresholdFlipLoggedOnce ==
    pool.config.HealthThreshold >= 1 =>
        /\ Cardinality(Logged) = hist.flips
        /\ pc[Resetter] = "idle" =>
              /\ ~IsHealthy(heap[1]) =>
                    Cardinality(Counted) >= pool.config.HealthThreshold
              /\ Cardinality(Returned) >= pool.config.HealthThreshold =>
                    ~IsHealthy(heap[1])
              /\ hist.flips <= 1

\* Every caller has returned, two of them went through SetHealthy(false), and
\* it returned true to one and false to the other.
C9_Witness ==
    /\ Returned = Callers
    /\ hist.flips = 1
    /\ \E g1, g2 \in Callers :
          /\ loc[g1].tried /\ loc[g1].res
          /\ loc[g2].tried /\ ~loc[g2].res

----------------------------------------------------------------------------
(* Specification SpecProbe: the probe path on one backend of a pool: the    *)
(* health checker reports probe results through MarkHealthy and             *)
(* MarkUnhealthy while the proxy reports failed requests.                   *)

ProbeConfigs ==
    [HealthThreshold : 0..MaxHealthThreshold,
     ProbeHealthThreshold : 0..MaxProbeThreshold,
     ProbeRecoveryThreshold : 0..MaxRecoveryThreshold,
     CircuitFailureThreshold : {1},
     CircuitSuccessThreshold : {1},
     CircuitTimeout : {1},
     CircuitMaxHalfOpenRequests : {1}]

\* History counters of the backend: successes is the number of MarkHealthy
\* calls made since the last MarkUnhealthy (or since it was created),
\* failures the number of MarkUnhealthy calls made since the last MarkHealthy.
NoProbes == [successes |-> 0, failures |-> 0]

probesAfter(op, o) ==
    IF op = "MarkHealthy"
    THEN [successes |-> o.successes + 1, failures |-> 0]
    ELSE IF op = "MarkUnhealthy"
         THEN [successes |-> 0, failures |-> o.failures + 1]
         ELSE o

InitProbe ==
    /\ now = Epoch
    /\ NoRouter
    /\ \E cfg \in ProbeConfigs :
          /\ heap = <<NewBackend("a", 1, CircuitConfig(cfg))>>
          /\ pool = [config |-> cfg, backends |-> <<1>>, counter |-> 0]
    /\ hist = NoProbes
    /\ called = [op |-> "New", arg |-> 0, res |-> 0]
    /\ spent = 0
    /\ pc = [g \in Callers |-> "idle"]
    /\ loc = [g \in Callers |-> NoLocals]
    /\ mu = 0
    /\ brk = New([FailureThreshold |-> 0, SuccessThreshold |-> 0,
                  Timeout |-> 0, MaxHalfOpenRequests |-> 0])
    /\ pre = brk
    /\ last = [op |-> "New", res |-> TRUE, at |-> Epoch]

\* A call on the backend that leaves it as b1.
Probe(op, b1) ==
    /\ spent < MaxProbes
    /\ spent' = spent + 1
    /\ heap' = [heap EXCEPT ![1] = b1]
    /\ hist' = probesAfter(op, hist)
    /\ called' = [op |-> op, arg |-> 1, res |-> 0]
    /\ UNCHANGED <<now, pool>>
    /\ PoolFrame

ProbeMarkHealthy == Probe("MarkHealthy", PoolMarkHealthy(pool.config, heap[1]))

ProbeMarkUnhealthy ==
    Probe("MarkUnhealthy", PoolMarkUnhealthy(pool.config, heap[1], now))

ProbeRecordFailure ==
    Probe("RecordFailure", PoolRecordFailure(pool.config, heap[1], now).b)

NextProbe ==
    \/ ProbeMarkHealthy
    \/ ProbeMarkUnhealthy
    \/ ProbeRecordFailure

SpecProbe == InitProbe /\ [][NextProbe]_vars

\* The recovery threshold in force.
RecoveryThreshold ==
    IF pool.config.ProbeRecoveryThreshold = 0 THEN 5
    ELSE pool.config.ProbeRecoveryThreshold

\* C11: a MarkHealthy call on an unhealthy backend makes it healthy exactly
\* when it is the R-th or a later one of a run of MarkHealthy calls not broken
\* by MarkUnhealthy, R being ProbeRecoveryThreshold, 5 when that is 0;
\* MarkHealthy zeroes the passive and probe failure counters and adds one to
\* the probe success count, and MarkUnhealthy zeroes the probe success count.
C11_RecoversAtRecoveryThreshold ==
    [][/\ called'.op = "MarkHealthy" =>
            /\ ~IsHealthy(heap[1]) =>
                  (IsHealthy(heap'[1]) <=> hist'.successes >= RecoveryThreshold)
            /\ heap'[1].Meta.PassiveFailCount = 0
            /\ heap'[1].Meta.ProbeFailCount = 0
            /\ heap'[1].Meta.ProbeSuccessCount =
                   heap[1].Meta.ProbeSuccessCount + 1
       /\ called'.op = "MarkUnhealthy" =>
            heap'[1].Meta.ProbeSuccessCount = 0
      ]_vars

\* The backend went unhealthy, and the last of five MarkHealthy calls in a
\* row, under the default threshold, has made it healthy again.
C11_Witness ==
    /\ called.op = "MarkHealthy"
    /\ pool.config.ProbeRecoveryThreshold = 0
    /\ hist.successes = 5
    /\ spent = 6
    /\ IsHealthy(heap[1])

\* The probe threshold in force.
ProbeThreshold ==
    IF pool.config.ProbeHealthThreshold = 0 THEN pool.config.HealthThreshold
    ELSE pool.config.ProbeHealthThreshold

\* C12: a MarkUnhealthy call on a healthy backend makes it unhealthy exactly
\* when the MarkUnhealthy calls made since the last MarkHealthy number the
\* probe threshold or more (ProbeHealthThreshold, HealthThreshold when that
\* is 0); the call adds one to the probe failure count and leaves the passive
\* failure count and the total request count as they were.
C12_ProbeFailuresFlip ==
    [][called'.op = "MarkUnhealthy" =>
          /\ IsHealthy(heap[1]) =>
                (~IsHealthy(heap'[1]) <=> hist'.failures >= ProbeThreshold)
          /\ ~IsHealthy(heap[1]) => ~IsHealthy(heap'[1])
          /\ heap'[1].Meta.ProbeFailCount = heap[1].Meta.ProbeFailCount + 1
          /\ heap'[1].Meta.PassiveFailCount = heap[1].Meta.PassiveFailCount
          /\ heap'[1].Meta.TotalRequests = heap[1].Meta.TotalRequests
      ]_vars

\* The second MarkUnhealthy call in a row has flipped the backend, under the
\* threshold taken over from HealthThreshold, after a failed request that
\* counted for nothing here.
C12_Witness ==
    /\ called.op = "MarkUnhealthy"
    /\ pool.config.ProbeHealthThreshold = 0
    /\ pool.config.HealthThreshold = 2
    /\ hist.failures = 2
    /\ heap[1].Meta.PassiveFailCount = 1
    /\ ~IsHealthy(heap[1])

----------------------------------------------------------------------------
(* Specification SpecFlags: NumCallers goroutines each call SetHealthy or   *)
(* SetDraining once on the same backend, one atomic operation at a time.    *)

FlagLocals == [op |-> "none", arg |-> FALSE, old |-> 0, retried |-> FALSE]

InitFlags ==
    /\ now = Epoch
    /\ NoRouter
    /\ \E cfg \in PoolConfigs :
          /\ cfg.HealthThreshold = 0
          /\ heap = <<NewBackend("a", 1, CircuitConfig(cfg))>>
          /\ pool = [config |-> cfg, backends |-> <<1>>, counter |-> 0]
    /\ hist = [healthy |-> TRUE, draining |-> FALSE]
    /\ called = [op |-> "New", arg |-> 0, res |-> 0]
    /\ spent = 0
    /\ pc = [g \in Callers |-> "idle"]
    /\ loc = [g \in Callers |-> FlagLocals]
    /\ mu = 0
    /\ brk = New([FailureThreshold |-> 0, SuccessThreshold |-> 0,
                  Timeout |-> 0, MaxHalfOpenRequests |-> 0])
    /\ pre = brk
    /\ last = [op |-> "New", res |-> TRUE, at |-> Epoch]

FlagsFrame ==
    UNCHANGED <<now, brk, pre, last, mu, pool, called, spent, routerVars>>

\* A goroutine enters SetHealthy(arg) or SetDraining(arg).
FlagsEnter(g) ==
    /\ pc[g] = "idle"
    /\ \E op \in {"SetHealthy", "SetDraining"}, arg \in BOOLEAN :
          loc' = [loc EXCEPT ![g].op = op, ![g].arg = arg]
    /\ pc' = [pc EXCEPT ![g] = "load"]
    /\ UNCHANGED <<heap, hist>>
    /\ FlagsFrame

\* old := b.State.Load()
FlagsLoad(g) ==
    /\ pc[g] = "load"
    /\ loc' = [loc EXCEPT ![g].old = heap[1].State]
    /\ pc' = [pc EXCEPT ![g] = "cas"]
    /\ UNCHANGED <<heap, hist>>
    /\ FlagsFrame

\* b.State.CompareAndSwap(old, newState); the call takes effect when the swap
\* succeeds, and hist records the argument of the call that took effect last.
FlagsCAS(g) ==
    /\ pc[g] = "cas"
    /\ LET newState == IF loc[g].op = "SetHealthy"
                       THEN SetHealthyWord(loc[g].old, loc[g].arg)
                       ELSE SetDrainingWord(loc[g].old, loc[g].arg)
           r == CompareAndSwap(heap[1].State, loc[g].old, newState)
       IN  /\ heap' = [heap EXCEPT ![1].State = r.word]
           /\ IF r.ok
              THEN /\ pc' = [pc EXCEPT ![g] = "done"]
                   /\ hist' = IF loc[g].op = "SetHealthy"
                              THEN [hist EXCEPT !.healthy = loc[g].arg]
                              ELSE [hist EXCEPT !.draining = loc[g].arg]
                   /\ UNCHANGED loc
              ELSE /\ pc' = [pc EXCEPT ![g] = "load"]
                   /\ loc' = [loc EXCEPT ![g].retried = TRUE]
                   /\ UNCHANGED hist
    /\ FlagsFrame

NextFlags ==
    \/ \E g \in Callers : FlagsEnter(g)
    \/ \E g \in Callers : FlagsLoad(g)
    \/ \E g \in Callers : FlagsCAS(g)

SpecFlags == InitFlags /\ [][NextFlags]_vars

\* C13: at every moment the healthy bit is the argument of the SetHealthy call
\* that took effect last (true when none has) and the draining bit is the
\* argument of the SetDraining call that took effect last (false when none
\* has): no update is lost and neither call alters the other flag.
C13_FlagsIndependent ==
    /\ IsHealthy(heap[1]) = hist.healthy
    /\ IsDraining(heap[1]) = hist.draining

\* Every call has returned; a SetHealthy(false) call had to retry its swap
\* because of a concurrent SetDraining(true), and both took effect.
C13_Witness ==
    /\ \A g \in Callers : pc[g] = "done"
    /\ \E g \in Callers :
          loc[g].op = "SetHealthy" /\ ~loc[g].arg /\ loc[g].retried
    /\ \E g \in Callers : loc[g].op = "SetDraining" /\ loc[g].arg
    /\ ~IsHealthy(heap[1])
    /\ IsDraining(heap[1])

----------------------------------------------------------------------------
(* Specification SpecProxy: NumCallers requests go through Proxy.ServeHTTP  *)
(* concurrently on one route whose pool holds two backends.                 *)

\* Variant: the deferred call is lost.
DecrActiveLost(m) == m

\* BackendMetadata.IncrActive
IncrActive(m) == [m EXCEPT !.ActiveConns = @ + 1]

\* BackendMetadata.DecrActive: ActiveConns.Add(^uint64(0)).  The uint64 is held
\* as its two's-complement bit pattern, so a negative number is a count that
\* wrapped below zero.
DecrActive(m) == [m EXCEPT !.ActiveConns = @ - 1]

\* How a request leaves ServeHTTP once it holds a backend.
ExitPaths ==
    {"request construction error", "upstream error", "response copied",
     "client cancelled"}

RequestLocals == [backend |-> 0, exit |-> "none"]

InitProxy ==
    /\ now = Epoch
    /\ NoRouter
    /\ \E cfg \in PoolConfigs :
          /\ heap = [i \in 1..2 |->
                        NewBackend(<<"a", "b">>[i], 1, CircuitConfig(cfg))]
          /\ pool = [config |-> cfg, backends |-> <<1, 2>>, counter |-> 0]
    /\ hist = <<NoOutcomes, NoOutcomes>>
    /\ called = [op |-> "New", arg |-> 0, res |-> 0]
    /\ spent = 0
    /\ pc = [g \in Callers |-> "idle"]
    /\ loc = [g \in Callers |-> RequestLocals]
    /\ mu = 0
    /\ brk = New([FailureThreshold |-> 0, SuccessThreshold |-> 0,
                  Timeout |-> 0, MaxHalfOpenRequests |-> 0])
    /\ pre = brk
    /\ last = [op |-> "New", res |-> TRUE, at |-> Epoch]

ProxyFrame ==
    UNCHANGED <<now, brk, pre, last, mu, hist, called, spent, routerVars>>

\* ServeHTTP up to route.NextBackend(): 503 and return when there is none.
ServeNextBackend(g) ==
    /\ pc[g] = "idle"
    /\ LET r == PoolNext(pool, heap, now)
       IN  /\ heap' = r.heap
           /\ pool' = [pool EXCEPT !.counter = r.counter]
           /\ loc' = [loc EXCEPT ![g].backend = r.chosen]
           /\ pc' = [pc EXCEPT ![g] = IF r.chosen = 0 THEN "done" ELSE "incr"]
    /\ ProxyFrame

\* backend.Meta.IncrActive(); defer backend.Meta.DecrActive()
ServeIncrActive(g) ==
    /\ pc[g] = "incr"
    /\ heap' = [heap EXCEPT ![loc[g].backend].Meta = IncrActive(@)]
    /\ pc' = [pc EXCEPT ![g] = "build"]
    /\ UNCHANGED <<pool, loc>>
    /\ ProxyFrame

\* http.NewRequestWithContext fails: 500 and return.
ServeBuildFails(g) ==
    /\ pc[g] = "build"
    /\ loc' = [loc EXCEPT ![g].exit = "request construction error"]
    /\ pc' = [pc EXCEPT ![g] = "defer"]
    /\ UNCHANGED <<heap, pool>>
    /\ ProxyFrame

\* p.client.Do fails: RecordFailure, 502 and return.
ServeUpstreamError(g) ==
    /\ pc[g] = "build"
    /\ heap' = [heap EXCEPT ![loc[g].backend] =
                   PoolRecordFailure(pool.config, @, now).b]
    /\ loc' = [loc EXCEPT ![g].exit = "upstream error"]
    /\ pc' = [pc EXCEPT ![g] = "defer"]
    /\ UNCHANGED pool
    /\ ProxyFrame

\* p.client.Do answers: RecordSuccess for a status in 200..399, RecordFailure
\* otherwise; the body is then copied until its end or until the client
\* cancels.
ServeResponse(g) ==
    /\ pc[g] = "build"
    /\ \E good \in BOOLEAN :
          heap' = [heap EXCEPT ![loc[g].backend] =
                      IF good THEN PoolRecordSuccess(pool.config, @)
                      ELSE PoolRecordFailure(pool.config, @, now).b]
    /\ \E exit \in {"response copied", "client cancelled"} :
          loc' = [loc EXCEPT ![g].exit = exit]
    /\ pc' = [pc EXCEPT ![g] = "defer"]
    /\ UNCHANGED pool
    /\ ProxyFrame

\* The deferred backend.Meta.DecrActive() on return.
ServeDecrActive(g) ==
    /\ pc[g] = "defer"
    /\ heap' = [heap EXCEPT ![loc[g].backend].Meta = DecrActive(@)]
    /\ pc' = [pc EXCEPT ![g] = "done"]
    /\ UNCHANGED <<pool, loc>>
    /\ ProxyFrame

NextProxy ==
    \/ \E g \in Callers : ServeNextBackend(g)
    \/ \E g \in Callers : ServeIncrActive(g)
    \/ \E g \in Callers : ServeBuildFails(g)
    \/ \E g \in Callers : ServeUpstreamError(g)
    \/ \E g \in Callers : ServeResponse(g)
    \/ \E g \in Callers : ServeDecrActive(g)

SpecProxy == InitProxy /\ [][NextProxy]_vars

\* The requests that hold backend h between their increment and their
\* decrement.
InFlight(h) ==
    {g \in Callers : loc[g].backend = h /\ pc[g] \in {"build", "defer"}}

\* C14: the active-connection count of every backend is the number of
\* requests in flight on it, whatever path each request leaves by; it is
\* never below zero and is 0 when no request is in flight on the backend.
C14_ActiveCountsInFlight ==
    \A h \in Handles :
        /\ heap[h].Meta.ActiveConns = Cardinality(InFlight(h))
        /\ heap[h].Meta.ActiveConns >= 0

\* Every request has returned; two of them held the same backend, one left
\* by a client cancellation and one by a request construction error.
C14_Witness ==
    /\ \A g \in Callers : pc[g] = "done"
    /\ \E g1, g2 \in Callers :
          /\ loc[g1].backend # 0
          /\ loc[g1].backend = loc[g2].backend
          /\ loc[g1].exit = "client cancelled"
          /\ loc[g2].exit = "request construction error"
    /\ \A h \in Handles : heap[h].Meta.ActiveConns = 0

----------------------------------------------------------------------------
(* router.go: hosts, paths, the trie and its copy-on-write insertion.       *)
(* A path or a host is a sequence of tokens: "/" and ":" are the            *)
(* separators, every other token is a run of characters without them.       *)

\* A Go map, by value: a function on its keys.
EmptyMap == [k \in {} |-> 0]

MapPut(f, k, v) == [x \in DOMAIN f \cup {k} |-> IF x = k THEN v ELSE f[x]]

MapDelete(f, k) == [x \in DOMAIN f \ {k} |-> f[x]]

\* strings.ToLower on one token.
ToLower(t) == IF t = "H" THEN "h" ELSE t

\* The position of the last ":" token of a host, 0 when it has none.
LastColon(host) ==
    LET hits == {i \in 1..Len(host) : host[i] = ":"}
    IN  IF hits = {} THEN 0 ELSE CHOOSE i \in hits : \A j \in hits : j <= i

\* Host.normalize
normalize(h) ==
    LET host == [i \in 1..Len(h) |-> ToLower(h[i])]
        idx == LastColon(host)
    IN  IF idx # 0 THEN SubSeq(host, 1, idx - 1) ELSE host

\* normalizePrefix
normalizePrefix(p) ==
    IF p = <<>> \/ p = <<"/">> THEN <<"/">>
    ELSE LET p1 == IF p[Len(p)] = "/" THEN SubSeq(p, 1, Len(p) - 1) ELSE p
         IN  IF p1 = <<>> \/ Head(p1) # "/" THEN <<"/">> \o p1 ELSE p1

\* pathToSegments
pathToSegments(path) ==
    IF path = <<"/">> THEN <<>>
    ELSE SelectSeq(path, LAMBDA t : t # "/")

\* The segments that newNode and lookup take for parameters (longer than one
\* character, starting with ':') and the names they bind.
ParamSegments == {":x", ":y"}

paramNameOf(seg) == IF seg = ":x" THEN "x" ELSE "y"

\* &node{...}: a new node object; the result is the memory and its id.
allocNode(m, node) ==
    [mem |-> [m EXCEPT !.nodes = Append(@, node)], id |-> Len(m.nodes) + 1]

\* make(map[string]*node): a new map object.
allocMap(m, f) ==
    [mem |-> [m EXCEPT !.maps = Append(@, f)], id |-> Len(m.maps) + 1]

\* Variant: the wildcard segment is not recognised.
newNodePlain(m, seg) ==
    LET c == allocMap(m, EmptyMap)
    IN  allocNode(c.mem,
                  [segment |-> seg,
                   route |-> 0,
                   paramName |-> IF seg \in ParamSegments THEN paramNameOf(seg)
                                 ELSE "",
                   isWildcard |-> FALSE,
                   children |-> c.id])

\* newNode
newNode(m, seg) ==
    LET c == allocMap(m, EmptyMap)
    IN  allocNode(c.mem,
                  [segment |-> seg,
                   route |-> 0,
                   paramName |-> IF seg \in ParamSegments THEN paramNameOf(seg)
                                 ELSE "",
                   isWildcard |-> seg \notin ParamSegments /\ seg = "*",
                   children |-> c.id])

\* Variant: no copy, the node under construction writes into the map of the
\* node it was copied from.
copyMapShares(m, id) == [mem |-> m, id |-> id]

\* copyMap
copyMap(m, id) == allocMap(m, m.maps[id])

\* node.insert on node n: the memory afterwards and the id of the node
\* returned.
RECURSIVE insert(_, _, _, _)
insert(m, n, segments, route) ==
    IF Len(segments) = 0
    THEN allocNode(m, [m.nodes[n] EXCEPT !.route = route])
    ELSE LET seg == Head(segments)
             c == copyMap(m, m.nodes[n].children)
             exists == seg \in DOMAIN c.mem.maps[c.id]
             child == IF exists
                      THEN [mem |-> c.mem, id |-> c.mem.maps[c.id][seg]]
                      ELSE newNode(c.mem, seg)
             m1 == [child.mem EXCEPT !.maps[c.id] = MapPut(@, seg, child.id)]
             sub == IF Len(segments) = 1
                    THEN allocNode(m1, [m1.nodes[child.id] EXCEPT
                                            !.route = route])
                    ELSE insert(m1, child.id, Tail(segments), route)
             m2 == [sub.mem EXCEPT !.maps[c.id] = MapPut(@, seg, sub.id)]
         IN  allocNode(m2, [m.nodes[n] EXCEPT !.children = c.id])

\* What a lookup hands back: found or not, the Route and the parameter map.
Found(route, params) == [found |-> TRUE, route |-> route, params |-> params]

NotFound(params) == [found |-> FALSE, route |-> 0, params |-> params]

\* Variant: without a wildcard child, the route of the node itself is
\* returned for a longer path.
wildcardOrAncestor(m, n, params) ==
    LET children == m.maps[m.nodes[n].children]
    IN  IF /\ "*" \in DOMAIN children
           /\ m.nodes[children["*"]].isWildcard
           /\ m.nodes[children["*"]].route # 0
        THEN {Found(m.nodes[children["*"]].route, params)}
        ELSE IF m.nodes[n].route # 0 THEN {Found(m.nodes[n].route, params)}
             ELSE {NotFound(params)}

\* node.lookup, lines 137-153: the wildcard child, else no match (the route
\* of the node itself is not returned for a longer path).
wildcardOrFail(m, n, params) ==
    LET children == m.maps[m.nodes[n].children]
    IN  IF /\ "*" \in DOMAIN children
           /\ m.nodes[children["*"]].isWildcard
           /\ m.nodes[children["*"]].route # 0
        THEN {Found(m.nodes[children["*"]].route, params)}
        ELSE {NotFound(params)}

\* The orders in which a range over a map may visit the keys in S.
Orders(S) ==
    {o \in [1..Cardinality(S) -> S] : \A i, j \in DOMAIN o : o[i] = o[j] => i = j}

\* node.lookup on node n: every outcome the call can have.  tryParams is the
\* range over the parameter children in one order, followed by the wildcard
\* test.
RECURSIVE lookup(_, _, _, _)
RECURSIVE tryParams(_, _, _, _, _)
lookup(m, n, segments, params) ==
    LET children == m.maps[m.nodes[n].children]
    IN  IF Len(segments) = 0
        THEN IF m.nodes[n].route # 0
             THEN {Found(m.nodes[n].route, params)}
             ELSE IF "*" \in DOMAIN children /\ m.nodes[children["*"]].route # 0
                  THEN {Found(m.nodes[children["*"]].route, params)}
                  ELSE {NotFound(params)}
        ELSE LET seg == Head(segments)
                 exact == IF seg \in DOMAIN children
                          THEN lookup(m, children[seg], Tail(segments), params)
                          ELSE {NotFound(params)}
                 paramKeys == {k \in DOMAIN children : k \in ParamSegments}
             IN  {o \in exact : o.found} \cup
                 UNION {tryParams(m, n, order, segments, o.params) :
                            order \in Orders(paramKeys),
                            o \in {x \in exact : ~x.found}}

tryParams(m, n, order, segments, params) ==
    LET children == m.maps[m.nodes[n].children]
    IN  IF Len(order) = 0
        THEN wildcardOrFail(m, n, params)
        ELSE LET child == children[Head(order)]
                 name == m.nodes[child].paramName
                 sub == lookup(m, child, Tail(segments),
                               MapPut(params, name, Head(segments)))
             IN  {o \in sub : o.found} \cup
                 UNION {tryParams(m, n, Tail(order), segments,
                                  MapDelete(o.params, name)) :
                            o \in {x \in sub : ~x.found}}

\* Router.Add on Router r: the memory afterwards and the Router returned.
\* services is the number of service URLs; the Route made is the next one, and
\* its Pool and health checker are known by the same number.
RouterAdd(m, r, host, path, services) ==
    IF Len(host) = 0 \/ services = 0 THEN [mem |-> m, id |-> r]
    ELSE LET h == normalize(host)
             normPath == normalizePrefix(path)
             segments == pathToSegments(normPath)
             route == Len(m.routes) + 1
             m1 == [m EXCEPT !.routes = Append(@, [Prefix |-> path,
                                                  Pool |-> route])]
             old == m.routers[r]
             root == IF h \in DOMAIN old.hosts
                     THEN [mem |-> m1, id |-> old.hosts[h]]
                     ELSE LET c == allocMap(m1, EmptyMap)
                          IN  allocNode(c.mem,
                                        [segment |-> "", route |-> 0,
                                         paramName |-> "", isWildcard |-> FALSE,
                                         children |-> c.id])
             newRoot == insert(root.mem, root.id, segments, route)
             new == [hosts |-> MapPut(old.hosts, h, newRoot.id),
                     healthcheckers |->
                         MapPut(old.healthcheckers, h \o normPath, route)]
         IN  [mem |-> [newRoot.mem EXCEPT !.routers = Append(@, new)],
              id |-> Len(m.routers) + 1]

\* Router.Lookup on Router r: every outcome the call can have; the
\* parameter map of a failed lookup is nil.
RouterLookup(m, r, host, path) ==
    LET h == normalize(host)
    IN  IF h \notin DOMAIN m.routers[r].hosts THEN {NotFound(EmptyMap)}
        ELSE LET outcomes == lookup(m, m.routers[r].hosts[h],
                                    pathToSegments(normalizePrefix(path)),
                                    EmptyMap)
             IN  {IF o.found THEN o ELSE NotFound(EmptyMap) : o \in outcomes}

----------------------------------------------------------------------------
(* Specification SpecRouter: Routers are built from NewRouter() by Add      *)
(* calls, each on any Router built so far, and looked up.  A Lookup writes  *)
(* no object, so the calls that follow one find what they would find        *)
(* without it: a run is followed up to its first Lookup.                    *)

\* Hosts as configured and as requested ("H:80" is host h, "g" is unknown).
AddHosts == {<<"h">>, <<>>}

LookupHosts == {<<"H", ":", "80">>, <<"g">>}

\* Path prefixes as configured: /, /a, /a/, a/b, /a/c, /:x, /:y, /:x/b,
\* /a/*, /*
AddPaths ==
    {<<"/">>, <<"/", "a">>, <<"/", "a", "/">>, <<"a", "/", "b">>,
     <<"/", "a", "/", "c">>, <<"/", ":x">>, <<"/", ":y">>,
     <<"/", ":x", "/", "b">>, <<"/", "a", "/", "*">>, <<"/", "*">>}

\* Request paths: /, /a, /a/, /a/b, /a/c, /c, /c/b, /a/b/c
LookupPaths ==
    {<<"/">>, <<"/", "a">>, <<"/", "a", "/">>, <<"/", "a", "/", "b">>,
     <<"/", "a", "/", "c">>, <<"/", "c">>, <<"/", "c", "/", "b">>,
     <<"/", "a", "/", "b", "/", "c">>}

\* hist lists, for every Router, what was registered on the way to it: for a
\* host and the segments of a prefix, the Route added last.
Registered(r) == hist[r]

InitRouter ==
    /\ NoRouter
    /\ hist = <<EmptyMap>>
    /\ called = [op |-> "NewRouter", router |-> 1, host |-> <<>>,
                 path |-> <<>>, res |-> NotFound(EmptyMap)]
    /\ spent = 0
    /\ now = Epoch
    /\ heap = <<>>
    /\ pool = [config |-> 0, backends |-> <<>>, counter |-> 0]
    /\ pc = [g \in Callers |-> "idle"]
    /\ loc = [g \in Callers |-> NoLocals]
    /\ mu = 0
    /\ brk = New([FailureThreshold |-> 0, SuccessThreshold |-> 0,
                  Timeout |-> 0, MaxHalfOpenRequests |-> 0])
    /\ pre = brk
    /\ last = [op |-> "New", res |-> TRUE, at |-> Epoch]

RouterFrame == UNCHANGED <<now, brk, pre, last, goVars, heap, pool>>

\* r.Add(host, path, services) on Router r
CallRouterAdd(r, host, path, services) ==
    /\ spent < MaxAdds
    /\ called.op # "Lookup"
    /\ spent' = spent + 1
    /\ LET a == RouterAdd(mem, r, host, path, services)
       IN  /\ mem' = a.mem
           /\ hist' = IF a.id = r THEN hist
                      ELSE Append(hist,
                                  MapPut(hist[r],
                                         <<normalize(host),
                                           pathToSegments(normalizePrefix(path))>>,
                                         Len(mem.routes) + 1))
           /\ called' = [op |-> "Add", router |-> r, host |-> host,
                         path |-> path, res |-> a.id]
    /\ RouterFrame

\* r.Lookup(host, path) on Router r
CallRouterLookup(r, host, path) ==
    /\ called.op # "Lookup"
    /\ \E o \in RouterLookup(mem, r, host, path) :
          called' = [op |-> "Lookup", router |-> r, host |-> host,
                     path |-> path, res |-> o]
    /\ UNCHANGED <<mem, hist, spent>>
    /\ RouterFrame

NextRouter ==
    \/ \E r \in 1..Len(mem.routers), host \in AddHosts, path \in AddPaths,
          services \in {0, 1} :
          CallRouterAdd(r, host, path, services)
    \/ \E r \in 1..Len(mem.routers), host \in LookupHosts,
          path \in LookupPaths :
          CallRouterLookup(r, host, path)

SpecRouter == InitRouter /\ [][NextRouter]_vars

----------------------------------------------------------------------------
(* Matching, stated on the registered prefixes instead of the trie *)

\* A prefix segment against a request segment.
SegmentMatches(ps, seg) == ps \in ParamSegments \/ ps = seg

IsWildcardPrefix(pattern) ==
    Len(pattern) > 0 /\ pattern[Len(pattern)] = "*"

\* The segments of a registered prefix against the segments of a request
\* path: segment by segment, a final "*" standing for any rest, none included.
Matches(pattern, segments) ==
    IF IsWildcardPrefix(pattern)
    THEN /\ Len(segments) >= Len(pattern) - 1
         /\ \A i \in 1..(Len(pattern) - 1) :
               SegmentMatches(pattern[i], segments[i])
    ELSE /\ Len(segments) = Len(pattern)
         /\ \A i \in 1..Len(pattern) : SegmentMatches(pattern[i], segments[i])

\* literal 0, parameter 1, wildcard 2
Kind(ps) == IF ps = "*" THEN 2 ELSE IF ps \in ParamSegments THEN 1 ELSE 0

\* pattern is a most specific one of the set M of matching prefixes: no
\* prefix of M that runs along with it up to some node continues there with a
\* segment of a more specific kind, or ends there while pattern goes on into
\* the wildcard.
MostSpecific(pattern, M) ==
    \A q \in M :
        /\ \A i \in 1..Len(pattern) :
              (/\ i <= Len(q)
               /\ SubSeq(q, 1, i - 1) = SubSeq(pattern, 1, i - 1))
              => Kind(q[i]) >= Kind(pattern[i])
        /\ ~(Len(q) < Len(pattern) /\ q = SubSeq(pattern, 1, Len(q)))

\* The key a host and a path are registered under.
KeyOf(host, path) == <<normalize(host), pathToSegments(normalizePrefix(path))>>

\* The prefixes registered with Router r for the host of the key that match
\* its segments.
Matching(r, key) ==
    {k \in DOMAIN hist[r] : k[1] = key[1] /\ Matches(k[2], key[2])}

AllRouters == 1..Len(mem.routers)

C17_NoAncestorFallback ==
    called.op = "Lookup" =>
        LET key == KeyOf(called.host, called.path)
            regs == hist[called.router]
            mine == {k \in DOMAIN regs : k[1] = key[1]}
        IN  /\ called.res.found =>
                  \A k \in mine :
                      regs[k] = called.res.route =>
                          \/ Len(k[2]) = Len(key[2])
                          \/ IsWildcardPrefix(k[2])
            /\ (\A k \in mine :
                    \/ Len(k[2]) < Len(key[2]) /\ ~IsWildcardPrefix(k[2])
                    \/ ~Matches(k[2], key[2]))
               => ~called.res.found

\* /a is registered, /a/* is not, and the Lookup of /a/b has failed.
C17_Witness ==
    /\ called.op = "Lookup"
    /\ ~called.res.found
    /\ KeyOf(called.host, called.path) = <<<<"h">>, <<"a", "b">>>>
    /\ <<<<"h">>, <<"a">>>> \in DOMAIN hist[called.router]
    /\ <<<<"h">>, <<"a", "*">>>> \notin DOMAIN hist[called.router]

\* C18: for a fixed Router, host and path, every Lookup call has the same
\* outcome, Route and parameter map.
C18_LookupDeterministic ==
    \A r \in AllRouters, host \in LookupHosts, path \in LookupPaths :
        Cardinality(RouterLookup(mem, r, host, path)) = 1

----------------------------------------------------------------------------
(* SpecSwap: requests of the Proxy while Routers are built and published *)

MaxSwaps == 2
MaxRequests == 2

Requests == 1..MaxRequests

\* Prefixes of the Routers built, and the request every client sends.
SwapPaths == {<<"/", "a">>, <<"/", ":x">>}
SwapHost == <<"h">>
SwapRequestPath == <<"/", "a">>

\* rt, route and backend pool of a request in ServeHTTP; start and pstart
\* count the publications that had happened when it was taken up, in both
\* pointers and in the pointer of the Proxy.
SwapLocals == [rt |-> 0, route |-> 0, pool |-> 0, start |-> 0, pstart |-> 0]

\* Start-up: rt built from the configuration, router.SetCurrent(rt),
\* proxy.New(router.Current()).
InitSwap ==
    /\ \E path \in SwapPaths :
          LET a == RouterAdd([nodes |-> <<>>, maps |-> <<>>, routes |-> <<>>,
                              routers |-> <<[hosts |-> EmptyMap,
                                             healthcheckers |-> EmptyMap]>>,
                              current |-> 0, proxy |-> 0],
                             1, SwapHost, path, 1)
          IN  /\ mem = [a.mem EXCEPT !.current = a.id, !.proxy = a.id]
              /\ hist = [seq |-> <<a.id>>, proxied |-> <<a.id>>]
    /\ called = [built |-> 0]
    /\ spent = 0
    /\ pc = [c \in Requests |-> "idle"]
    /\ loc = [c \in Requests |-> SwapLocals]
    /\ now = Epoch
    /\ heap = <<>>
    /\ pool = [config |-> 0, backends |-> <<>>, counter |-> 0]
    /\ mu = 0
    /\ brk = New([FailureThreshold |-> 0, SuccessThreshold |-> 0,
                  Timeout |-> 0, MaxHalfOpenRequests |-> 0])
    /\ pre = brk
    /\ last = [op |-> "New", res |-> TRUE, at |-> Epoch]

SwapFrame == UNCHANGED <<now, brk, pre, last, mu, heap, pool>>

\* A new Router is built with Add on an empty Router or on the one in use;
\* until it is published only the builder holds it.
SwapBuild(base, path) ==
    /\ spent < MaxSwaps
    /\ called.built = 0
    /\ spent' = spent + 1
    /\ LET a == RouterAdd(mem, base, SwapHost, path, 1)
       IN  /\ mem' = a.mem
           /\ called' = [built |-> a.id]
    /\ UNCHANGED <<hist, pc, loc>>
    /\ SwapFrame

\* p.UpdateRouter(r): p.router.Store(r)
SwapUpdateRouter ==
    /\ called.built # 0
    /\ mem' = [mem EXCEPT !.proxy = called.built]
    /\ hist' = [seq |-> Append(hist.seq, called.built),
                proxied |-> Append(hist.proxied, called.built)]
    /\ called' = [built |-> 0]
    /\ UNCHANGED <<spent, pc, loc>>
    /\ SwapFrame

\* router.SetCurrent(r): current.Store(r)
SwapSetCurrent ==
    /\ called.built # 0
    /\ mem' = [mem EXCEPT !.current = called.built]
    /\ hist' = [hist EXCEPT !.seq = Append(@, called.built)]
    /\ called' = [built |-> 0]
    /\ UNCHANGED <<spent, pc, loc>>
    /\ SwapFrame

\* rt := p.router.Load(), the first thing a request does
SwapLoad(c) ==
    /\ pc[c] = "idle"
    /\ loc' = [loc EXCEPT ![c] = [SwapLocals EXCEPT
                                    !.rt = mem.proxy,
                                    !.start = Len(hist.seq),
                                    !.pstart = Len(hist.proxied)]]
    /\ pc' = [pc EXCEPT ![c] = "lookup"]
    /\ UNCHANGED <<mem, hist, called, spent>>
    /\ SwapFrame

\* route, params, ok := rt.Lookup(host, path); 404 when !ok
SwapLookup(c) ==
    /\ pc[c] = "lookup"
    /\ \E o \in RouterLookup(mem, loc[c].rt, SwapHost, SwapRequestPath) :
          IF o.found
          THEN /\ loc' = [loc EXCEPT ![c].route = o.route]
               /\ pc' = [pc EXCEPT ![c] = "backend"]
          ELSE /\ loc' = loc
               /\ pc' = [pc EXCEPT ![c] = "done"]
    /\ UNCHANGED <<mem, hist, called, spent>>
    /\ SwapFrame

\* backend, err := route.NextBackend(): a backend of route.Pool
SwapNextBackend(c) ==
    /\ pc[c] = "backend"
    /\ loc' = [loc EXCEPT ![c].pool = mem.routes[loc[c].route].Pool]
    /\ pc' = [pc EXCEPT ![c] = "upstream"]
    /\ UNCHANGED <<mem, hist, called, spent>>
    /\ SwapFrame

\* the upstream request and the copy of its response
SwapRespond(c) ==
    /\ pc[c] = "upstream"
    /\ pc' = [pc EXCEPT ![c] = "done"]
    /\ UNCHANGED <<mem, hist, called, spent, loc>>
    /\ SwapFrame

NextSwap ==
    \/ \E base \in {1, mem.proxy}, path \in SwapPaths : SwapBuild(base, path)
    \/ SwapUpdateRouter
    \/ SwapSetCurrent
    \/ \E c \in Requests : SwapLoad(c)
    \/ \E c \in Requests : SwapLookup(c)
    \/ \E c \in Requests : SwapNextBackend(c)
    \/ \E c \in Requests : SwapRespond(c)

SpecSwap == InitSwap /\ [][NextSwap]_vars

\* The Routers published, in either pointer, from the n-th publication on.
PublishedFrom(seq, n) == {seq[i] : i \in n..Len(seq)}

\* What a request holds was obtained from the Router it loaded: the Route is
\* one rt.Lookup returns and the pool is the Pool of that Route.
KeepsRoute(c) ==
    /\ pc[c] \in {"backend", "upstream"} =>
          \E o \in RouterLookup(mem, loc[c].rt, SwapHost, SwapRequestPath) :
              o.found /\ o.route = loc[c].route
    /\ pc[c] = "upstream" => loc[c].pool = mem.routes[loc[c].route].Pool

\* C19 as stated: a request is routed with the Router that was the last one
\* published when its handling started, or with one published since; it
\* keeps the Route and the Pool it got from that Router until it completes;
\* the Router it loaded is one whose construction had finished.
C19_HotSwap ==
    \A c \in Requests :
        pc[c] # "idle" =>
            /\ loc[c].rt \in PublishedFrom(hist.seq, loc[c].start)
            /\ KeepsRoute(c)
            /\ loc[c].rt \in 1..Len(mem.routers)
            /\ loc[c].rt # called.built

\* The same with only Proxy.UpdateRouter counted as a publication: this holds.
HotSwapByUpdateRouter ==
    \A c \in Requests :
        pc[c] # "idle" =>
            /\ loc[c].rt \in PublishedFrom(hist.proxied, loc[c].pstart)
            /\ KeepsRoute(c)
            /\ loc[c].rt \in 1..Len(mem.routers)
            /\ loc[c].rt # called.built

----------------------------------------------------------------------------
(* SpecMembers: concurrent Pool.Add, Pool.Remove and Pool.List *)

\* In this specification the BackendList objects are kept apart from the
\* pointer to them: pool.lists holds the Items of every BackendList made so
\* far, pool.backends is the atomic pointer of the Pool (an index into
\* pool.lists) and pool.list the slice the balancer was last given.

MaxMembers == 2

\* The goroutines that call the Pool.
Members == 1..MaxMembers

MemberLocals ==
    [op |-> "none", id |-> "", old |-> 0, idx |-> 0, newB |-> 0, new |-> 0]

\* Variant: the new backend is appended to the Items of the old BackendList,
\* as append(oldItems, newB) does when the slice has room.
appendItemInPlace(lists, old, h) ==
    [lists |-> [lists EXCEPT ![old] = Append(@, h)], id |-> old]

\* newItems := make(..., len(oldItems)+1); copy(newItems, oldItems);
\* newItems[len(newItems)-1] = newB; &BackendList{Items: newItems}
appendItem(lists, old, h) ==
    [lists |-> Append(lists, Append(lists[old], h)), id |-> Len(lists) + 1]

\* filterSlice(old, idx) and &BackendList{Items: newItems}
removeItem(lists, old, idx) ==
    [lists |-> Append(lists, filterSlice(lists[old], idx)),
     id |-> Len(lists) + 1]

\* What Add and Remove do to a list when they run alone.
SeqAdd(list, h) == Append(list, h)

SeqRemove(hp, list, id) ==
    LET hits == {i \in 1..Len(list) : hp[list[i]].ID = id}
    IN  IF hits = {} THEN list
        ELSE LET first == CHOOSE i \in hits : \A j \in hits : i <= j
             IN  [i \in 1..(Len(list) - 1) |->
                     IF i < first THEN list[i] ELSE list[i + 1]]

\* New with a configuration and the backends of a fleet added one by one.
\* hist.lin is the list after each Add and Remove so far, in the order they
\* took effect; hist.frozen the Items every BackendList had when the pointer
\* was set to it; hist.returned the List results handed out; hist.writes the
\* Add and Remove calls made.
InitMembers ==
    /\ now = Epoch
    /\ NoRouter
    /\ \E cfg \in PoolConfigs, ids \in Fleets :
          /\ cfg.HealthThreshold = 0
          /\ heap = [i \in 1..Len(ids) |->
                        NewBackend(ids[i], 1, CircuitConfig(cfg))]
          /\ pool = [config |-> cfg, backends |-> 1, counter |-> 0,
                     lists |-> <<[i \in 1..Len(ids) |-> i]>>, list |-> 1]
          /\ hist = [lin |-> <<[i \in 1..Len(ids) |-> i]>>,
                     frozen |-> <<[i \in 1..Len(ids) |-> i]>>,
                     returned |-> {},
                     writes |-> 0]
    /\ called = [op |-> "New", arg |-> 0, res |-> 0]
    /\ spent = 0
    /\ pc = [g \in Members |-> "idle"]
    /\ loc = [g \in Members |-> MemberLocals]
    /\ mu = 0
    /\ brk = New([FailureThreshold |-> 0, SuccessThreshold |-> 0,
                  Timeout |-> 0, MaxHalfOpenRequests |-> 0])
    /\ pre = brk
    /\ last = [op |-> "New", res |-> TRUE, at |-> Epoch]

MembersFrame == UNCHANGED <<now, brk, pre, last, called, routerVars>>

\* A goroutine calls p.Add(id, u, 1), p.Remove(id) or p.List().
MembersEnter(g, op, id) ==
    /\ pc[g] = "idle"
    /\ spent < MaxCalls
    /\ spent' = spent + 1
    /\ loc' = [loc EXCEPT ![g] = [MemberLocals EXCEPT !.op = op, !.id = id]]
    /\ pc' = [pc EXCEPT ![g] = IF op = "List" THEN "snapshot" ELSE "lock"]
    /\ hist' = [hist EXCEPT !.writes = IF op = "List" THEN @ ELSE @ + 1]
    /\ UNCHANGED <<mu, heap, pool>>
    /\ MembersFrame

\* p.opMu.Lock()
MembersLock(g) ==
    /\ pc[g] = "lock"
    /\ mu = 0
    /\ mu' = g
    /\ pc' = [pc EXCEPT ![g] = "load"]
    /\ UNCHANGED <<loc, spent, hist, heap, pool>>
    /\ MembersFrame

\* old := p.backends.Load(); Remove then looks for the id and returns when
\* the list is empty or does not hold it.
MembersLoad(g) ==
    /\ pc[g] = "load"
    /\ LET old == pool.backends
           idx == IndexOfID(heap, pool.lists[old], loc[g].id)
       IN  IF loc[g].op = "Remove"
           THEN /\ loc' = [loc EXCEPT ![g].old = old, ![g].idx = idx]
                /\ pc' = [pc EXCEPT ![g] = IF idx = 0 THEN "unlock"
                                           ELSE "build"]
                /\ hist' = IF idx = 0
                           THEN [hist EXCEPT !.lin =
                                    Append(@, SeqRemove(heap, @[Len(@)],
                                                        loc[g].id))]
                           ELSE hist
           ELSE /\ loc' = [loc EXCEPT ![g].old = old]
                /\ pc' = [pc EXCEPT ![g] = "build"]
                /\ hist' = hist
    /\ UNCHANGED <<mu, spent, heap, pool>>
    /\ MembersFrame

\* the new Items: the copy with newB = NewBackend(...) at the end in Add,
\* filterSlice(old, idx) in Remove
MembersBuild(g) ==
    /\ pc[g] = "build"
    /\ IF loc[g].op = "Add"
       THEN LET r == appendItem(pool.lists, loc[g].old, Len(heap) + 1)
            IN  /\ heap' = Append(heap, NewBackend(loc[g].id, 1,
                                                   CircuitConfig(pool.config)))
                /\ pool' = [pool EXCEPT !.lists = r.lists]
                /\ loc' = [loc EXCEPT ![g].new = r.id,
                                      ![g].newB = Len(heap) + 1]
       ELSE LET r == removeItem(pool.lists, loc[g].old, loc[g].idx)
            IN  /\ heap' = heap
                /\ pool' = [pool EXCEPT !.lists = r.lists]
                /\ loc' = [loc EXCEPT ![g].new = r.id]
    /\ pc' = [pc EXCEPT ![g] = "store"]
    /\ UNCHANGED <<mu, spent, hist>>
    /\ MembersFrame

\* p.backends.Store(&BackendList{Items: newItems})
MembersStore(g) ==
    /\ pc[g] = "store"
    /\ pool' = [pool EXCEPT !.backends = loc[g].new]
    /\ hist' = [hist EXCEPT
                  !.lin = Append(@, IF loc[g].op = "Add"
                                    THEN SeqAdd(@[Len(@)], loc[g].newB)
                                    ELSE SeqRemove(heap, @[Len(@)],
                                                   loc[g].id)),
                  !.frozen = [p \in 1..Len(pool.lists) |->
                                 IF p \in DOMAIN @ THEN @[p]
                                 ELSE pool.lists[p]]]
    /\ pc' = [pc EXCEPT ![g] = "update"]
    /\ UNCHANGED <<mu, spent, loc, heap>>
    /\ MembersFrame

\* p.balancer.Update(newItems)
MembersUpdate(g) ==
    /\ pc[g] = "update"
    /\ pool' = [pool EXCEPT !.list = loc[g].new]
    /\ pc' = [pc EXCEPT ![g] = "unlock"]
    /\ UNCHANGED <<mu, spent, loc, heap, hist>>
    /\ MembersFrame

\* the deferred p.opMu.Unlock(), and the return
MembersUnlock(g) ==
    /\ pc[g] = "unlock"
    /\ mu' = 0
    /\ pc' = [pc EXCEPT ![g] = "idle"]
    /\ UNCHANGED <<spent, loc, heap, pool, hist>>
    /\ MembersFrame

\* List: p.snapshot() loads the pointer and returns its Items.
MembersSnapshot(g) ==
    /\ pc[g] = "snapshot"
    /\ hist' = [hist EXCEPT !.returned =
                   @ \cup {[ptr |-> pool.backends,
                            items |-> pool.lists[pool.backends],
                            n |-> Len(hist.lin)]}]
    /\ pc' = [pc EXCEPT ![g] = "idle"]
    /\ UNCHANGED <<mu, spent, loc, heap, pool>>
    /\ MembersFrame

NextMembers ==
    \/ \E g \in Members, op \in {"Add", "Remove"}, id \in IDs :
          MembersEnter(g, op, id)
    \/ \E g \in Members : MembersEnter(g, "List", "")
    \/ \E g \in Members : MembersLock(g)
    \/ \E g \in Members : MembersLoad(g)
    \/ \E g \in Members : MembersBuild(g)
    \/ \E g \in Members : MembersStore(g)
    \/ \E g \in Members : MembersUpdate(g)
    \/ \E g \in Members : MembersUnlock(g)
    \/ \E g \in Members : MembersSnapshot(g)

SpecMembers == InitMembers /\ [][NextMembers]_vars

\* C20: the list the Pool holds is the outcome of the Add and Remove calls
\* that have taken effect, applied one after the other in the order they took
\* effect, each exactly once; every List result is the list after some
\* prefix of that order; and the Items of a BackendList are what they were
\* when the pointer was set to it or when List returned them.
C20_MembershipLinearisable ==
    /\ pool.lists[pool.backends] = hist.lin[Len(hist.lin)]
    /\ (\A g \in Members : pc[g] = "idle") =>
           Len(hist.lin) = hist.writes + 1
    /\ \A r \in hist.returned :
           /\ r.items = hist.lin[r.n]
           /\ pool.lists[r.ptr] = r.items
    /\ \A p \in DOMAIN hist.frozen : pool.lists[p] = hist.frozen[p]

\* Every call has returned; List returned a non-empty list between two calls
\* that changed the list, and the list it returned is not the current one.
C20_Witness ==
    /\ \A g \in Members : pc[g] = "idle"
    /\ hist.writes >= 2
    /\ \E r \in hist.returned :
          /\ r.n = 2
          /\ r.ptr # pool.backends
          /\ r.items # pool.lists[pool.backends]
          /\ Len(r.items) > 0

----------------------------------------------------------------------------
(* SpecTrial: one breaker, requests in flight and probe outcomes *)

MaxOutstanding == 3

\* hist.trials is the number of requests that Allow admitted in the present
\* HalfOpen period and that have recorded no outcome yet; hist.others the
\* number of the other admitted requests that have recorded none.
trialsAfter(b0, b1, h) ==
    IF b0.state = HalfOpen /\ b1.state # HalfOpen
    THEN [trials |-> 0, others |-> h.trials + h.others]
    ELSE h

InitTrial ==
    /\ now = Epoch
    /\ \E cfg \in RawConfigs : brk = New(cfg)
    /\ pre = brk
    /\ last = [op |-> "New", res |-> TRUE, at |-> now]
    /\ hist = [trials |-> 0, others |-> 0]
    /\ pc = [g \in Callers |-> "idle"]
    /\ loc = [g \in Callers |-> NoLocals]
    /\ mu = 0
    /\ NoPool

TrialFrame == UNCHANGED <<pre, goVars, poolVars, routerVars>>

TrialTick ==
    /\ now < Epoch + MaxTime
    /\ now' = now + 1
    /\ UNCHANGED <<brk, last, hist>>
    /\ TrialFrame

\* Allow for a request; an admitted request records its outcome later.
TrialAllow ==
    /\ hist.trials + hist.others < MaxOutstanding
    /\ LET r == Allow(brk, now)
           h == trialsAfter(brk, r.b, hist)
       IN  /\ brk' = r.b
           /\ last' = [op |-> "Allow", res |-> r.ok, at |-> now]
           /\ hist' = IF ~r.ok THEN h
                      ELSE IF r.b.state = HalfOpen
                           THEN [h EXCEPT !.trials = @ + 1]
                           ELSE [h EXCEPT !.others = @ + 1]
    /\ now' = now
    /\ TrialFrame

\* An admitted request records its outcome: RecordSuccess or RecordFailure.
TrialOutcome(kind, ok) ==
    /\ hist[kind] > 0
    /\ LET b1 == IF ok THEN RecordSuccess(brk) ELSE RecordFailure(brk, now)
       IN  /\ brk' = b1
           /\ hist' = trialsAfter(brk, b1, [hist EXCEPT ![kind] = @ - 1])
    /\ last' = [op |-> IF ok THEN "RecordSuccess" ELSE "RecordFailure",
                res |-> TRUE, at |-> now]
    /\ now' = now
    /\ TrialFrame

\* The outcome of a probe: RecordProbeSuccess from MarkHealthy, RecordFailure
\* from MarkUnhealthy.
TrialProbe(ok) ==
    /\ LET b1 == IF ok THEN RecordProbeSuccess(brk)
                 ELSE RecordFailure(brk, now)
       IN  /\ brk' = b1
           /\ hist' = trialsAfter(brk, b1, hist)
    /\ last' = [op |-> IF ok THEN "RecordProbeSuccess" ELSE "MarkUnhealthy",
                res |-> TRUE, at |-> now]
    /\ now' = now
    /\ TrialFrame

NextTrial ==
    \/ TrialTick
    \/ TrialAllow
    \/ \E kind \in {"trials", "others"}, ok \in BOOLEAN :
          TrialOutcome(kind, ok)
    \/ \E ok \in BOOLEAN : TrialProbe(ok)

SpecTrial == InitTrial /\ [][NextTrial]_vars

\* C29: while the breaker is HalfOpen, at most MaxHalfOpenRequests (1 when
\* that is 0) requests admitted by Allow in this HalfOpen period have not
\* recorded their outcome yet.
C29_TrialsBounded ==
    brk.state = HalfOpen => hist.trials <= Limit

----------------------------------------------------------------------------
(* SpecBackoff: one breaker through repeated recovery attempts *)

MaxReopens == 2

\* hist.reopened counts the calls that moved the breaker from HalfOpen back
\* to Open.
reopenedAfter(b0, b1, h) ==
    IF b0.state = HalfOpen /\ b1.state = Open
    THEN [reopened |-> h.reopened + 1]
    ELSE h

InitBackoff ==
    /\ now = Epoch
    /\ \E cfg \in RawConfigs : brk = New(cfg)
    /\ pre = brk
    /\ last = [op |-> "New", res |-> TRUE, at |-> now]
    /\ hist = [reopened |-> 0]
    /\ pc = [g \in Callers |-> "idle"]
    /\ loc = [g \in Callers |-> NoLocals]
    /\ mu = 0
    /\ NoPool

BackoffTick ==
    /\ now < Epoch + MaxTime
    /\ now' = now + 1
    /\ UNCHANGED <<brk, pre, last, hist>>
    /\ UNCHANGED <<goVars, poolVars, routerVars>>

\* One call on the breaker, made alone.
BackoffCall(op, b1, res) ==
    /\ reopenedAfter(brk, b1, hist).reopened <= MaxReopens
    /\ brk' = b1
    /\ pre' = brk
    /\ last' = [op |-> op, res |-> res, at |-> now]
    /\ hist' = reopenedAfter(brk, b1, hist)
    /\ now' = now
    /\ UNCHANGED <<goVars, poolVars, routerVars>>

BackoffAllow ==
    LET r == Allow(brk, now) IN BackoffCall("Allow", r.b, r.ok)

BackoffRecordSuccess ==
    BackoffCall("RecordSuccess", RecordSuccess(brk), TRUE)

BackoffRecordProbeSuccess ==
    BackoffCall("RecordProbeSuccess", RecordProbeSuccess(brk), TRUE)

BackoffRecordFailure ==
    BackoffCall("RecordFailure", RecordFailure(brk, now), TRUE)

NextBackoff ==
    \/ BackoffTick
    \/ BackoffAllow
    \/ BackoffRecordSuccess
    \/ BackoffRecordProbeSuccess
    \/ BackoffRecordFailure

SpecBackoff == InitBackoff /\ [][NextBackoff]_vars

----------------------------------------------------------------------------
(* SpecServe: requests through Proxy.ServeHTTP, one at a time *)

\* What p.client.Do returns: an error, among them the one it returns when the
\* context of the inbound request is cancelled while it waits, or a response
\* with a status code.
TransportErrors == {"transport error", "client cancelled"}
Statuses == {101, 200, 399, 400, 500}
Upstreams ==
    {[err |-> e, status |-> 0] : e \in TransportErrors} \cup
    {[err |-> "", status |-> c] : c \in Statuses}

ServePaths == {<<"/", "a">>, <<"/", "c">>}

\* Variant: only the 5xx statuses count as failures.
outcomeOfServerErrorsOnly(upstream) ==
    IF upstream.err # "" THEN "RecordFailure"
    ELSE IF upstream.status >= 200 /\ upstream.status < 500
         THEN "RecordSuccess"
    ELSE "RecordFailure"

\* The call ServeHTTP makes on route.Pool for what client.Do returned.
outcomeOf(upstream) ==
    IF upstream.err # "" THEN "RecordFailure"
    ELSE IF upstream.status >= 200 /\ upstream.status < 400
         THEN "RecordSuccess"
    ELSE "RecordFailure"

\* ServeHTTP for one request: the heap and the balancer counter afterwards,
\* the status of the reply, the backend chosen (0 for none), the heap as it
\* was when the upstream call was about to be made, and the calls made on
\* route.Pool after that.  found says whether rt.Lookup found a Route, build
\* whether http.NewRequestWithContext succeeded.
ServeHTTP(p, hp, t, found, build, upstream) ==
    IF ~found
    THEN [heap |-> hp, counter |-> p.counter, reply |-> 404, backend |-> 0,
          before |-> hp, recorded |-> <<>>]
    ELSE
    LET n == PoolNext(p, hp, t)
        h == n.chosen
    IN  IF h = 0
        THEN [heap |-> n.heap, counter |-> n.counter, reply |-> 503,
              backend |-> 0, before |-> n.heap, recorded |-> <<>>]
        ELSE
        LET hp1 == [n.heap EXCEPT ![h].Meta = IncrActive(@)]
        IN  IF ~build
            THEN [heap |-> [hp1 EXCEPT ![h].Meta = DecrActive(@)],
                  counter |-> n.counter, reply |-> 500, backend |-> h,
                  before |-> n.heap, recorded |-> <<>>]
            ELSE
            LET op == outcomeOf(upstream)
                hp2 == [hp1 EXCEPT ![h] =
                           IF op = "RecordSuccess"
                           THEN PoolRecordSuccess(p.config, @)
                           ELSE PoolRecordFailure(p.config, @, t).b]
            IN  [heap |-> [hp2 EXCEPT ![h].Meta = DecrActive(@)],
                 counter |-> n.counter,
                 reply |-> IF upstream.err # "" THEN 502
                           ELSE upstream.status,
                 backend |-> h, before |-> n.heap, recorded |-> <<op>>]

\* The Router has one Route, for /a on host h, whose Pool is the pool with
\* two backends.
InitServe ==
    /\ now = Epoch
    /\ LET a == RouterAdd([nodes |-> <<>>, maps |-> <<>>, routes |-> <<>>,
                           routers |-> <<[hosts |-> EmptyMap,
                                          healthcheckers |-> EmptyMap]>>,
                           current |-> 0, proxy |-> 0],
                          1, SwapHost, SwapRequestPath, 1)
       IN  mem = [a.mem EXCEPT !.current = a.id, !.proxy = a.id]
    /\ \E cfg \in PoolConfigs :
          /\ heap = [i \in 1..2 |->
                        NewBackend(<<"a", "b">>[i], 1, CircuitConfig(cfg))]
          /\ pool = [config |-> cfg, backends |-> <<1, 2>>, counter |-> 0]
    /\ hist = heap
    /\ called = [path |-> <<>>, build |-> TRUE,
                 upstream |-> [err |-> "", status |-> 0], at |-> Epoch,
                 reply |-> 0, backend |-> 0, recorded |-> <<>>]
    /\ spent = 0
    /\ pc = [g \in Callers |-> "idle"]
    /\ loc = [g \in Callers |-> RequestLocals]
    /\ mu = 0
    /\ brk = New([FailureThreshold |-> 0, SuccessThreshold |-> 0,
                  Timeout |-> 0, MaxHalfOpenRequests |-> 0])
    /\ pre = brk
    /\ last = [op |-> "New", res |-> TRUE, at |-> Epoch]

ServeFrame == UNCHANGED <<brk, pre, last, goVars, routerVars>>

ServeTick ==
    /\ now < Epoch + MaxPoolTime
    /\ \E h \in Handles : heap[h].Circuit.state = Open
    /\ now' = now + 1
    /\ UNCHANGED <<heap, pool, hist, called, spent>>
    /\ ServeFrame

\* One request from its arrival to its return; hist keeps the heap as it was
\* when the upstream call was about to be made.
ServeRequest(path, build, upstream) ==
    /\ spent < MaxCalls
    /\ spent' = spent + 1
    /\ \E o \in RouterLookup(mem, mem.proxy, SwapHost, path) :
          LET r == ServeHTTP(pool, heap, now, o.found, build, upstream)
          IN  /\ heap' = r.heap
              /\ pool' = [pool EXCEPT !.counter = r.counter]
              /\ hist' = r.before
              /\ called' = [path |-> path, build |-> build,
                            upstream |-> upstream, at |-> now,
                            reply |-> r.reply,
                            backend |-> r.backend, recorded |-> r.recorded]
    /\ now' = now
    /\ ServeFrame

NextServe ==
    \/ ServeTick
    \/ \E path \in ServePaths, build \in BOOLEAN, upstream \in Upstreams :
          ServeRequest(path, build, upstream)

SpecServe == InitServe /\ [][NextServe]_vars

\* The request reached p.client.Do.
Dispatched == called.backend # 0 /\ called.build

\* C24: a request that was dispatched upstream has made exactly one call on
\* the pool for its backend, which shows in the counters of that backend:
\* RecordFailure with reply 502 for a transport error, RecordSuccess for a
\* status in 200..399, RecordFailure for any other status; a request that was
\* not dispatched (404, 503, 500) has made none, and no other backend is
\* touched.
C24_OneOutcomePerDispatch ==
    /\ Dispatched =>
          LET h == called.backend
              was == hist[h]
              is == heap[h]
              failed == \/ called.upstream.err \in TransportErrors
                        \/ called.upstream.status < 200
                        \/ called.upstream.status > 399
          IN  /\ Len(called.recorded) = 1
              /\ is.Meta.TotalRequests = was.Meta.TotalRequests + 1
              /\ called.upstream.err \in TransportErrors => called.reply = 502
              /\ IF failed
                 THEN /\ is.Meta.PassiveFailCount =
                            was.Meta.PassiveFailCount + 1
                      /\ is.Circuit = RecordFailure(was.Circuit, called.at)
                 ELSE /\ is.Meta.PassiveFailCount = was.Meta.PassiveFailCount
                      /\ is.Circuit = RecordSuccess(was.Circuit)
              /\ \A k \in Handles \ {h} : heap[k] = hist[k]
    /\ ~Dispatched =>
          /\ called.recorded = <<>>
          /\ heap = hist
    /\ called.reply = 404 => called.backend = 0
    /\ called.reply = 503 => called.backend = 0

\* The upstream has answered 400 and the failure was recorded on the backend
\* that was chosen.
C24_Witness ==
    /\ Dispatched
    /\ called.upstream = [err |-> "", status |-> 400]
    /\ called.reply = 400
    /\ called.recorded = <<"RecordFailure">>
    /\ heap[called.backend].Meta.PassiveFailCount = 1

\* C25: after a request whose client cancelled while the upstream call was
\* outstanding, the backend has the passive-failure count, the flags and the
\* breaker it had when the call was made, and its active-connection count is
\* back where it was.
C25_CancelRecordsNothing ==
    (Dispatched /\ called.upstream.err = "client cancelled") =>
        LET h == called.backend
        IN  /\ heap[h].Meta.PassiveFailCount = hist[h].Meta.PassiveFailCount
            /\ heap[h].State = hist[h].State
            /\ heap[h].Circuit = hist[h].Circuit
            /\ heap[h].Meta.ActiveConns = hist[h].Meta.ActiveConns

----------------------------------------------------------------------------
(* SpecRR: concurrent RoundRobin.Next on a fixed list *)

MaxRRCalls == 6

\* The lists handed to Next: handles of backends, none to three of them.
RRLists == {<<>>, <<1>>, <<1, 2>>, <<1, 2, 3>>}

RRLocals == [idx |-> 0]

\* Variant: the index advances every second call.
roundrobinPickHalved(idx, backends) ==
    backends[((idx \div 2) % Len(backends)) + 1]

\* backends[idx%uint64(len(backends))]
roundrobinPick(idx, backends) == backends[(idx % Len(backends)) + 1]

\* hist.list is the list every call is given; hist.chosen[i] the backend
\* returned by the call whose counter increment gave i (0 while that call has
\* not returned); hist.none the number of calls that returned nil.
InitRR ==
    /\ now = Epoch
    /\ NoRouter
    /\ heap = <<>>
    /\ pool = [config |-> 0, backends |-> <<>>, counter |-> 0]
    /\ \E list \in RRLists : hist = [list |-> list, chosen |-> <<>>, none |-> 0]
    /\ called = [op |-> "New", arg |-> 0, res |-> 0]
    /\ spent = 0
    /\ pc = [g \in Members |-> "idle"]
    /\ loc = [g \in Members |-> RRLocals]
    /\ mu = 0
    /\ brk = New([FailureThreshold |-> 0, SuccessThreshold |-> 0,
                  Timeout |-> 0, MaxHalfOpenRequests |-> 0])
    /\ pre = brk
    /\ last = [op |-> "New", res |-> TRUE, at |-> Epoch]

RRFrame == UNCHANGED <<now, brk, pre, last, mu, heap, called, routerVars>>

\* Next(backends): nil when len(backends) == 0
RREnter(g) ==
    /\ pc[g] = "idle"
    /\ spent < MaxRRCalls
    /\ spent' = spent + 1
    /\ IF Len(hist.list) = 0
       THEN /\ hist' = [hist EXCEPT !.none = @ + 1]
            /\ pc' = pc
       ELSE /\ hist' = hist
            /\ pc' = [pc EXCEPT ![g] = "add"]
    /\ UNCHANGED <<loc, pool>>
    /\ RRFrame

\* idx := r.counter.Add(1)
RRAdd(g) ==
    /\ pc[g] = "add"
    /\ pool' = [pool EXCEPT !.counter = @ + 1]
    /\ loc' = [loc EXCEPT ![g].idx = pool.counter + 1]
    /\ hist' = [hist EXCEPT !.chosen = Append(@, 0)]
    /\ pc' = [pc EXCEPT ![g] = "pick"]
    /\ UNCHANGED spent
    /\ RRFrame

\* return backends[idx%uint64(len(backends))]
RRReturn(g) ==
    /\ pc[g] = "pick"
    /\ hist' = [hist EXCEPT !.chosen[loc[g].idx] =
                                roundrobinPick(loc[g].idx, hist.list)]
    /\ pc' = [pc EXCEPT ![g] = "idle"]
    /\ UNCHANGED <<loc, pool, spent>>
    /\ RRFrame

NextRR ==
    \/ \E g \in Members : RREnter(g)
    \/ \E g \in Members : RRAdd(g)
    \/ \E g \in Members : RRReturn(g)

SpecRR == InitRR /\ [][NextRR]_vars

\* How often backend h was returned by the calls with indexes from..to.
RRCount(h, from, to) ==
    Cardinality({i \in from..to : hist.chosen[i] = h})

----------------------------------------------------------------------------
(* SpecWRR: sequential WeightedRR.Next on a fixed list *)

MaxWeight == 3

MaxWRRCalls == 18

WRRHandles == 1..3

\* Weight is a uint32 and TempWeight an int64.  The model counts both in
\* units of scale, which is 1 or 2^30: sums, differences and comparisons of
\* multiples of the unit are the same in units, and a uint32 sum of multiples
\* of 2^30 wraps modulo 2^32 / 2^30 = 4 units.  At scale 1 the weights are at
\* most MaxWeight and no sum comes near 2^32.
WeightScales == {1, 2^30}

wrapUint32(units, scale) == IF scale = 2^30 THEN units % 4 ELSE units

RECURSIVE totalWeightFrom(_, _, _, _)
\* sum += b.Weight
totalWeightFrom(hp, list, i, scale) ==
    IF i > Len(list) THEN 0
    ELSE wrapUint32(hp[list[i]].Weight
                        + totalWeightFrom(hp, list, i + 1, scale), scale)

totalWeight(hp, list, scale) == totalWeightFrom(hp, list, 1, scale)

\* One pass of the loop of Next over candidates[i]: the weight is added to
\* TempWeight and the backend becomes best when it is strictly above bestScore.
WeightedRRVisit(acc, h) ==
    LET temp == acc.heap[h].Meta.TempWeight + acc.heap[h].Weight
        better == temp > acc.bestScore
    IN  [heap |-> [acc.heap EXCEPT ![h].Meta.TempWeight = temp],
         best |-> IF better THEN h ELSE acc.best,
         bestScore |-> IF better THEN temp ELSE acc.bestScore]

RECURSIVE WeightedRRLoop(_, _, _)
WeightedRRLoop(acc, candidates, i) ==
    IF i > Len(candidates) THEN acc
    ELSE WeightedRRLoop(WeightedRRVisit(acc, candidates[i]), candidates, i + 1)

\* WeightedRR.Next: the heap afterwards and the handle returned (0 for nil);
\* panics when best is still nil after the loop.  bestScore starts at -1,
\* below every multiple of the unit that is not negative.
WeightedRRNext(hp, backends, scale) ==
    LET candidates == filterCandidates(hp, backends)
        r == WeightedRRLoop([heap |-> hp, best |-> 0, bestScore |-> 0 - 1],
                            candidates, 1)
    IN  IF Len(candidates) = 0
        THEN [heap |-> hp, chosen |-> 0, panics |-> FALSE]
        ELSE IF r.best = 0
        THEN [heap |-> r.heap, chosen |-> 0, panics |-> TRUE]
        ELSE [heap |-> [r.heap EXCEPT ![r.best].Meta.TempWeight =
                                         @ - totalWeight(hp, candidates, scale)],
              chosen |-> r.best, panics |-> FALSE]

\* Three backends with weights of 1..MaxWeight units, any of them unhealthy
\* from the start; hist counts the calls and how often each backend was
\* returned.
InitWRR ==
    /\ now = Epoch
    /\ NoRouter
    /\ \E w \in [WRRHandles -> 1..MaxWeight], up \in SUBSET WRRHandles :
          heap = [h \in WRRHandles |->
                     SetHealthy(NewBackend(<<"a", "b", "c">>[h], w[h],
                                           [FailureThreshold |-> 0,
                                            SuccessThreshold |-> 0,
                                            Timeout |-> 0,
                                            MaxHalfOpenRequests |-> 0]),
                                h \in up).b]
    /\ pool = [config |-> 0, backends |-> <<1, 2, 3>>, counter |-> 0]
    /\ \E scale \in WeightScales :
          hist = [calls |-> 0, picked |-> [h \in WRRHandles |-> 0],
                  panics |-> FALSE, scale |-> scale]
    /\ called = [op |-> "New", arg |-> 0, res |-> 0]
    /\ spent = 0
    /\ pc = [g \in Members |-> "idle"]
    /\ loc = [g \in Members |-> RRLocals]
    /\ mu = 0
    /\ brk = New([FailureThreshold |-> 0, SuccessThreshold |-> 0,
                  Timeout |-> 0, MaxHalfOpenRequests |-> 0])
    /\ pre = brk
    /\ last = [op |-> "New", res |-> TRUE, at |-> Epoch]

\* One call of Next, from entry to return.
WRRCall ==
    /\ hist.calls < MaxWRRCalls
    /\ ~hist.panics
    /\ LET r == WeightedRRNext(heap, pool.backends, hist.scale)
       IN  /\ heap' = r.heap
           /\ hist' = [calls |-> hist.calls + 1,
                       picked |-> IF r.chosen = 0 THEN hist.picked
                                  ELSE [hist.picked EXCEPT ![r.chosen] = @ + 1],
                       panics |-> r.panics, scale |-> hist.scale]
    /\ UNCHANGED <<now, brk, pre, last, pool, called, spent, goVars, routerVars>>

NextWRR == WRRCall

SpecWRR == InitWRR /\ [][NextWRR]_vars

WRRCandidates == filterCandidates(heap, pool.backends)

RECURSIVE TempWeightSum(_)
TempWeightSum(i) ==
    IF i > Len(pool.backends) THEN 0
    ELSE heap[pool.backends[i]].Meta.TempWeight + TempWeightSum(i + 1)

\* The sum of the candidates' weights as an integer, in units.
RECURSIVE WeightSum(_)
WeightSum(i) ==
    IF i > Len(WRRCandidates) THEN 0
    ELSE heap[WRRCandidates[i]].Weight + WeightSum(i + 1)

SmoothCycle ==
    LET W == WeightSum(1)
    IN  /\ TempWeightSum(1) = 0
        /\ ~hist.panics
        /\ (W > 0 /\ hist.calls % W = 0) =>
              /\ \A h \in WRRHandles : heap[h].Meta.TempWeight = 0
              /\ \A i \in 1..Len(WRRCandidates) :
                    hist.picked[WRRCandidates[i]] =
                        (hist.calls \div W) * heap[WRRCandidates[i]].Weight

\* C27: called one after another on a fixed set of candidates whose
\* temp_weights start at 0, Next keeps the sum of the temp_weights at 0, never
\* fails to choose, and after every whole number k of cycles of W calls, W
\* being the sum of the candidates' weights, candidate i has been returned
\* k * w_i times and every temp_weight is 0 again.
C27_SmoothCycle == SmoothCycle

\* The same while the sum of the candidates' weights is below 2^32.
SmoothCycleBelowOverflow ==
    WeightSum(1) = totalWeight(heap, WRRCandidates, hist.scale) => SmoothCycle

\* Two candidates of weights 1 and 3 and one unhealthy backend, after two full
\* cycles of four calls.
SmoothCycleReached ==
    /\ hist.scale = 1
    /\ Len(WRRCandidates) = 2
    /\ heap[WRRCandidates[1]].Weight = 1
    /\ heap[WRRCandidates[2]].Weight = 3
    /\ hist.calls = 8
    /\ hist.picked[WRRCandidates[1]] = 2
    /\ hist.picked[WRRCandidates[2]] = 6

----------------------------------------------------------------------------
(* SpecWRRRace: concurrent WeightedRR.Next, statement by statement *)

WRRRaceHandles == 1..2

WRRLocals == [candidates |-> <<>>, i |-> 0, best |-> 0, bestScore |-> 0,
              temp |-> 0, chosen |-> 0]

\* Two healthy backends with weights of 1..MaxWeight; hist keeps the heap of
\* the start.
InitWRRRace ==
    /\ now = Epoch
    /\ NoRouter
    /\ \E w \in [WRRRaceHandles -> 1..MaxWeight] :
          heap = [h \in WRRRaceHandles |->
                     NewBackend(<<"a", "b">>[h], w[h],
                                [FailureThreshold |-> 0, SuccessThreshold |-> 0,
                                 Timeout |-> 0, MaxHalfOpenRequests |-> 0])]
    /\ pool = [config |-> 0, backends |-> <<1, 2>>, counter |-> 0]
    /\ hist = heap
    /\ called = [op |-> "New", arg |-> 0, res |-> 0]
    /\ spent = 0
    /\ pc = [g \in Members |-> "idle"]
    /\ loc = [g \in Members |-> WRRLocals]
    /\ mu = 0
    /\ brk = New([FailureThreshold |-> 0, SuccessThreshold |-> 0,
                  Timeout |-> 0, MaxHalfOpenRequests |-> 0])
    /\ pre = brk
    /\ last = [op |-> "New", res |-> TRUE, at |-> Epoch]

WRRRaceFrame ==
    UNCHANGED <<now, brk, pre, last, mu, pool, hist, called, spent, routerVars>>

\* candidates := filterCandidates(backends); best = nil, bestScore = -1
WRREnter(g) ==
    /\ pc[g] = "idle"
    /\ LET candidates == filterCandidates(heap, pool.backends)
       IN  /\ loc' = [loc EXCEPT ![g] = [WRRLocals EXCEPT
                                            !.candidates = candidates,
                                            !.i = 1, !.bestScore = 0 - 1]]
           /\ pc' = [pc EXCEPT ![g] = IF Len(candidates) = 0 THEN "done"
                                      ELSE "load"]
    /\ UNCHANGED heap
    /\ WRRRaceFrame

\* b.Meta.TempWeight += int64(b.Weight): the read
WRRLoad(g) ==
    /\ pc[g] = "load"
    /\ loc' = [loc EXCEPT ![g].temp =
                  heap[loc[g].candidates[loc[g].i]].Meta.TempWeight]
    /\ pc' = [pc EXCEPT ![g] = "store"]
    /\ UNCHANGED heap
    /\ WRRRaceFrame

\* b.Meta.TempWeight += int64(b.Weight): the write
WRRStore(g) ==
    /\ pc[g] = "store"
    /\ LET h == loc[g].candidates[loc[g].i]
       IN  /\ heap' = [heap EXCEPT ![h].Meta.TempWeight =
                                      loc[g].temp + heap[h].Weight]
           /\ loc' = [loc EXCEPT ![g].temp = loc[g].temp + heap[h].Weight]
    /\ pc' = [pc EXCEPT ![g] = "compare"]
    /\ WRRRaceFrame

\* if b.Meta.TempWeight > bestScore {...}: the value compared is the one
\* just written or the one found in memory, as the compiler chooses.
WRRCompare(g) ==
    /\ pc[g] = "compare"
    /\ LET h == loc[g].candidates[loc[g].i]
       IN  \E temp \in {loc[g].temp, heap[h].Meta.TempWeight} :
              LET better == temp > loc[g].bestScore
                  more == loc[g].i < Len(loc[g].candidates)
              IN  /\ loc' = [loc EXCEPT
                                ![g].best = IF better THEN h ELSE @,
                                ![g].bestScore = IF better THEN temp ELSE @,
                                ![g].i = @ + 1]
                  /\ pc' = [pc EXCEPT ![g] = IF more THEN "load"
                                             ELSE "subtract"]
    /\ UNCHANGED heap
    /\ WRRRaceFrame

\* best.Meta.TempWeight -= int64(totalWeight(candidates)): the read; a nil
\* best panics.
WRRSubtractLoad(g) ==
    /\ pc[g] = "subtract"
    /\ IF loc[g].best = 0
       THEN /\ pc' = [pc EXCEPT ![g] = "panic"]
            /\ loc' = loc
       ELSE /\ pc' = [pc EXCEPT ![g] = "write"]
            /\ loc' = [loc EXCEPT ![g].temp =
                          heap[loc[g].best].Meta.TempWeight]
    /\ UNCHANGED heap
    /\ WRRRaceFrame

\* best.Meta.TempWeight -= int64(totalWeight(candidates)): the write, and
\* return best
WRRSubtractStore(g) ==
    /\ pc[g] = "write"
    /\ heap' = [heap EXCEPT ![loc[g].best].Meta.TempWeight =
                   loc[g].temp - totalWeight(heap, loc[g].candidates, 1)]
    /\ loc' = [loc EXCEPT ![g].chosen = loc[g].best]
    /\ pc' = [pc EXCEPT ![g] = "done"]
    /\ WRRRaceFrame

NextWRRRace ==
    \/ \E g \in Members : WRREnter(g)
    \/ \E g \in Members : WRRLoad(g)
    \/ \E g \in Members : WRRStore(g)
    \/ \E g \in Members : WRRCompare(g)
    \/ \E g \in Members : WRRSubtractLoad(g)
    \/ \E g \in Members : WRRSubtractStore(g)

SpecWRRRace == InitWRRRace /\ [][NextWRRRace]_vars

\* n calls of Next one after another from the heap hp: the heap afterwards
\* and how often each backend was returned.
RECURSIVE WRRSequential(_, _)
WRRSequential(hp, n) ==
    IF n = 0 THEN [heap |-> hp, picked |-> [h \in WRRRaceHandles |-> 0]]
    ELSE LET before == WRRSequential(hp, n - 1)
             r == WeightedRRNext(before.heap, pool.backends, 1)
         IN  [heap |-> r.heap,
              picked |-> [before.picked EXCEPT ![r.chosen] = @ + 1]]

\* C28: once every concurrent call of Next has returned, the backends
\* returned and the temp_weights are those of the same number of calls made
\* one after another.
C28_SelectionSerialised ==
    (\A g \in Members : pc[g] = "done") =>
        LET s == WRRSequential(hist, Cardinality(Members))
        IN  /\ \A h \in WRRRaceHandles :
                  /\ heap[h].Meta.TempWeight = s.heap[h].Meta.TempWeight
                  /\ Cardinality({g \in Members : loc[g].chosen = h})
                         = s.picked[h]

----------------------------------------------------------------------------
(* SpecDrain: Pool.WaitForDrain beside Add, Remove, StartDraining and the   *)
(* connections of the proxy.  One unit of time is the 50 ms of a sleep.     *)

MaxDrainOps == 3

DrainTimeouts == {0, 2}

DrainFleets == {<<"a">>, <<"a", "b">>, <<"b", "a">>}

DrainLocals == [id |-> "", deadline |-> 0, checked |-> 0, woken |-> 0,
                polls |-> 0]

\* Variant: the draining flag is not looked at.
pollFromAnyState(hp, items, id, i, found) ==
    IF \E k \in 1..Len(items) :
            hp[items[k]].ID = id /\ hp[items[k]].Meta.ActiveConns = 0
    THEN "true"
    ELSE IF \E k \in 1..Len(items) : hp[items[k]].ID = id THEN "sleep"
    ELSE "false"

RECURSIVE pollFrom(_, _, _, _, _)
\* The loop over items of one pass of WaitForDrain, from position i on:
\* "true" at the first backend with the id that is draining and has no active
\* connection, otherwise "sleep" when one with the id is draining, otherwise
\* "false".
pollFrom(hp, items, id, i, found) ==
    IF i > Len(items) THEN (IF found THEN "sleep" ELSE "false")
    ELSE LET b == hp[items[i]]
         IN  IF b.ID = id /\ IsDraining(b)
             THEN IF b.Meta.ActiveConns = 0 THEN "true"
                  ELSE pollFrom(hp, items, id, i + 1, TRUE)
             ELSE pollFrom(hp, items, id, i + 1, found)

\* A pool of one or two backends, the first with or without a connection in
\* progress; called holds the result of WaitForDrain once it has returned.
InitDrain ==
    /\ now = Epoch
    /\ NoRouter
    /\ \E ids \in DrainFleets, conns \in 0..1 :
          LET cfg == CHOOSE c \in PoolConfigs : c.HealthThreshold = 0
          IN  /\ heap = [i \in 1..Len(ids) |->
                            LET b == NewBackend(ids[i], 1, CircuitConfig(cfg))
                            IN  [b EXCEPT !.Meta.ActiveConns =
                                              IF i = 1 THEN conns ELSE 0]]
              /\ pool = [config |-> cfg,
                         backends |-> [i \in 1..Len(ids) |-> i],
                         counter |-> 0]
    /\ hist = 0
    /\ called = [op |-> "none", arg |-> 0, res |-> FALSE]
    /\ spent = 0
    /\ pc = [g \in Members |-> "idle"]
    /\ loc = [g \in Members |-> DrainLocals]
    /\ mu = 0
    /\ brk = New([FailureThreshold |-> 0, SuccessThreshold |-> 0,
                  Timeout |-> 0, MaxHalfOpenRequests |-> 0])
    /\ pre = brk
    /\ last = [op |-> "New", res |-> TRUE, at |-> Epoch]

DrainFrame == UNCHANGED <<brk, pre, last, mu, hist, routerVars>>

DrainOp ==
    /\ spent < MaxDrainOps
    /\ spent' = spent + 1
    /\ UNCHANGED <<now, pc, loc, called>>
    /\ DrainFrame

DrainTick ==
    /\ now < Epoch + MaxPoolTime
    /\ now' = now + 1
    /\ UNCHANGED <<heap, pool, spent, pc, loc, called>>
    /\ DrainFrame

\* Pool.Add(id, u, 1)
DrainAdd(id) ==
    /\ heap' = Append(heap, NewBackend(id, 1, CircuitConfig(pool.config)))
    /\ pool' = [pool EXCEPT !.backends = Append(@, Len(heap) + 1)]
    /\ DrainOp

\* Pool.Remove(id)
DrainRemove(id) ==
    /\ LET idx == IndexOfID(heap, pool.backends, id)
       IN  pool' = IF idx = 0 THEN pool
                   ELSE [pool EXCEPT !.backends = filterSlice(@, idx)]
    /\ heap' = heap
    /\ DrainOp

\* Pool.StartDraining(id)
DrainStartDraining(id) ==
    /\ LET idx == IndexOfID(heap, pool.backends, id)
       IN  heap' = IF idx = 0 THEN heap
                   ELSE [heap EXCEPT ![pool.backends[idx]] =
                                         SetDraining(@, TRUE)]
    /\ pool' = pool
    /\ DrainOp

\* A request of the proxy on backend h begins: IncrActive.
DrainConnOpen(h) ==
    /\ heap[h].Meta.ActiveConns = 0
    /\ heap' = [heap EXCEPT ![h].Meta = IncrActive(@)]
    /\ pool' = pool
    /\ DrainOp

\* A request of the proxy on backend h ends: DecrActive.
DrainConnClose(h) ==
    /\ heap[h].Meta.ActiveConns > 0
    /\ heap' = [heap EXCEPT ![h].Meta = DecrActive(@)]
    /\ pool' = pool
    /\ UNCHANGED <<now, pc, loc, called, spent>>
    /\ DrainFrame

\* WaitForDrain(id, timeout): deadline := time.Now().Add(timeout)
WaitForDrainEnter(g, id, timeout) ==
    /\ pc[g] = "idle"
    /\ g = 1
    /\ loc' = [loc EXCEPT ![g] = [DrainLocals EXCEPT !.id = id,
                                     !.deadline = now + timeout]]
    /\ pc' = [pc EXCEPT ![g] = "check"]
    /\ UNCHANGED <<now, heap, pool, spent, called>>
    /\ DrainFrame

\* for time.Now().Before(deadline); return false after the loop
WaitForDrainCheck(g) ==
    /\ pc[g] = "check"
    /\ loc' = [loc EXCEPT ![g].checked = now]
    /\ IF now < loc[g].deadline
       THEN /\ pc' = [pc EXCEPT ![g] = "poll"]
            /\ called' = called
       ELSE /\ pc' = [pc EXCEPT ![g] = "done"]
            /\ called' = [op |-> "WaitForDrain", arg |-> loc[g].id,
                          res |-> FALSE]
    /\ UNCHANGED <<now, heap, pool, spent>>
    /\ DrainFrame

\* One pass under opMu: the list is read and searched.
WaitForDrainPoll(g) ==
    /\ pc[g] = "poll"
    /\ LET r == pollFrom(heap, pool.backends, loc[g].id, 1, FALSE)
       IN  /\ pc' = [pc EXCEPT ![g] = IF r = "sleep" THEN "sleep" ELSE "done"]
           /\ called' = IF r = "sleep" THEN called
                        ELSE [op |-> "WaitForDrain", arg |-> loc[g].id,
                              res |-> (r = "true")]
    /\ loc' = [loc EXCEPT ![g].polls = @ + 1, ![g].woken = now + 1]
    /\ UNCHANGED <<now, heap, pool, spent>>
    /\ DrainFrame

\* time.Sleep(50 * time.Millisecond) is over.
WaitForDrainWake(g) ==
    /\ pc[g] = "sleep"
    /\ now >= loc[g].woken
    /\ pc' = [pc EXCEPT ![g] = "check"]
    /\ UNCHANGED <<now, heap, pool, spent, loc, called>>
    /\ DrainFrame

NextDrain ==
    \/ DrainTick
    \/ \E id \in IDs : DrainAdd(id)
    \/ \E id \in IDs : DrainRemove(id)
    \/ \E id \in IDs : DrainStartDraining(id)
    \/ \E h \in Handles : DrainConnOpen(h)
    \/ \E h \in Handles : DrainConnClose(h)
    \/ \E g \in Members, timeout \in DrainTimeouts :
          WaitForDrainEnter(g, "a", timeout)
    \/ \E g \in Members : WaitForDrainCheck(g)
    \/ \E g \in Members : WaitForDrainPoll(g)
    \/ \E g \in Members : WaitForDrainWake(g)

SpecDrain == InitDrain /\ [][NextDrain]_vars

\* The backends of the list with the ID the waiter waits for.
Listed == {pool.backends[i] : i \in 1..Len(pool.backends)}

Waited == {h \in Listed : heap[h].ID = loc[1].id}

WaitReturns == pc[1] # "done" /\ pc'[1] = "done"

\* C21: WaitForDrain returns true only on seeing a backend with the id in the
\* list with no active connection; it returns false only when no backend
\* with the id is in the list or when it read the clock at or after the
\* deadline.
C21_WaitForDrain ==
    [][WaitReturns =>
          /\ called'.res => \E h \in Waited : heap[h].Meta.ActiveConns = 0
          /\ ~called'.res => (Waited = {} \/ now >= loc[1].deadline)]_vars

\* C21 amended: a pass of WaitForDrain that finds a draining backend with
\* the id and no active connection in the list returns true; a pass that
\* finds no draining backend with the id in the list returns false; any other
\* pass sleeps; and apart from the passes WaitForDrain returns only when it
\* reads the clock at or after the deadline, with false.
C21_WaitForDrainDraining ==
    [][/\ pc[1] = "poll" /\ pc'[1] # "poll" =>
            LET draining == {h \in Waited : IsDraining(heap[h])}
                drained == {h \in draining : heap[h].Meta.ActiveConns = 0}
            IN  /\ drained # {} => pc'[1] = "done" /\ called'.res
                /\ draining = {} => pc'[1] = "done" /\ ~called'.res
                /\ (draining # {} /\ drained = {}) => pc'[1] = "sleep"
       /\ (WaitReturns /\ pc[1] # "poll") =>
            /\ pc[1] = "check"
            /\ now >= loc[1].deadline
            /\ ~called'.res]_vars

\* WaitForDrain has returned true on its second pass or later.
C21_Witness ==
    /\ pc[1] = "done"
    /\ called.res
    /\ loc[1].polls >= 2

----------------------------------------------------------------------------
(* SpecSupervisor: one Healthchecker, its reconciliation and probe tasks,   *)
(* and two goroutines that call Start, Stop, Pool.Add and Pool.Remove.      *)
(* Goroutines 1 and 2 are the callers; every go statement appends one to pc *)
(* and loc.  A probe changes nothing of what is modelled here, so a probe   *)
(* task only waits for its context to be cancelled.                         *)

MaxSupervisorOps == 3

MaxPasses == 2

SupervisorFleets == {<<"a">>, <<"a", "b">>}

SupervisorCallers == {1, 2}

TaskLocals == [kind |-> "caller", ctx |-> 0, backend |-> 0, ids |-> <<>>,
               list |-> <<>>, passes |-> 0, cancel |-> 0]

\* context.WithCancel(parent): contexts are numbered in mem.ctxs; a context
\* is done once it or its parent has been cancelled.
WithCancel(ctxs, parent) == Append(ctxs, [parent |-> parent, cancelled |-> FALSE])

CancelCtx(ctxs, c) == [ctxs EXCEPT ![c].cancelled = TRUE]

RECURSIVE CancelAll(_, _)
CancelAll(ctxs, cs) ==
    IF cs = {} THEN ctxs
    ELSE LET c == CHOOSE x \in cs : TRUE
         IN  CancelAll(CancelCtx(ctxs, c), cs \ {c})

Done(ctxs, c) ==
    \/ ctxs[c].cancelled
    \/ ctxs[c].parent # 0 /\ ctxs[ctxs[c].parent].cancelled

\* health.New(pool): not started, no context, no probes map.
NewHealthchecker ==
    [started |-> FALSE, ctx |-> 0, cancel |-> 0, probes |-> EmptyMap, wg |-> 0]

\* reconcile, lines 254-258: currentIDs[b.ID] = b for every b of the list, a
\* later backend replacing an earlier one with the same ID.
currentIDs(hp, backends) ==
    [id \in {hp[backends[i]].ID : i \in 1..Len(backends)} |->
        backends[CHOOSE i \in 1..Len(backends) :
                    /\ hp[backends[i]].ID = id
                    /\ \A j \in 1..Len(backends) :
                          hp[backends[j]].ID = id => j <= i]]

\* Variant: the guard on started is missing.
startProbeUnguarded(st, b, id) ==
    LET ctxs == WithCancel(st.ctxs, st.hc.ctx)
    IN  [hc |-> [st.hc EXCEPT !.probes = MapPut(@, id, Len(ctxs)),
                              !.wg = @ + 1],
         ctxs |-> ctxs,
         spawned |-> Append(st.spawned, [ctx |-> Len(ctxs), backend |-> b])]

\* startProbeForBackendLocked(b) on the state st of the healthchecker hc, the
\* contexts and the probe tasks spawned so far in this pass.
startProbeForBackendLocked(st, b, id) ==
    IF ~st.hc.started \/ st.hc.ctx = 0 THEN st
    ELSE LET ctxs == WithCancel(st.ctxs, st.hc.ctx)
         IN  [hc |-> [st.hc EXCEPT !.probes = MapPut(@, id, Len(ctxs)),
                                   !.wg = @ + 1],
              ctxs |-> ctxs,
              spawned |-> Append(st.spawned,
                                 [ctx |-> Len(ctxs), backend |-> b])]

\* reconcile, lines 270-274, over the IDs of todo; the order in which the
\* map is ranged over only renumbers the contexts and the tasks.
RECURSIVE startMissing(_, _, _)
startMissing(st, ids, todo) ==
    IF todo = {} THEN st
    ELSE LET id == CHOOSE x \in todo : TRUE
             next == IF id \in DOMAIN st.hc.probes THEN st
                     ELSE startProbeForBackendLocked(st, ids[id], id)
         IN  startMissing(next, ids, todo \ {id})

\* reconcile, lines 260-275, with the map ids built before the lock.
reconcileLocked(hc, ctxs, ids) ==
    LET gone == {id \in DOMAIN hc.probes : id \notin DOMAIN ids}
        kept == [id \in DOMAIN hc.probes \ gone |-> hc.probes[id]]
    IN  startMissing([hc |-> [hc EXCEPT !.probes = kept],
                      ctxs |-> CancelAll(ctxs, {hc.probes[id] : id \in gone}),
                      spawned |-> <<>>],
                     ids, DOMAIN ids)

\* A pool of one or two backends and a Healthchecker made by health.New;
\* hist.quiet says that a Stop has returned nil and no Start was called
\* since.
InitSupervisor ==
    /\ now = Epoch
    /\ \E ids \in SupervisorFleets :
          LET cfg == CHOOSE c \in PoolConfigs : c.HealthThreshold = 0
          IN  /\ heap = [i \in 1..Len(ids) |->
                            NewBackend(ids[i], 1, CircuitConfig(cfg))]
              /\ pool = [config |-> cfg,
                         backends |-> [i \in 1..Len(ids) |-> i],
                         counter |-> 0]
    /\ mem = [nodes |-> <<>>, maps |-> <<>>, routes |-> <<>>,
              routers |-> <<[hosts |-> EmptyMap, healthcheckers |-> EmptyMap]>>,
              current |-> 1, proxy |-> 1,
              hc |-> NewHealthchecker, ctxs |-> <<>>]
    /\ hist = [quiet |-> FALSE]
    /\ called = [op |-> "none", arg |-> 0, res |-> "nil"]
    /\ spent = 0
    /\ pc = [g \in SupervisorCallers |-> "idle"]
    /\ loc = [g \in SupervisorCallers |-> TaskLocals]
    /\ mu = 0
    /\ brk = New([FailureThreshold |-> 0, SuccessThreshold |-> 0,
                  Timeout |-> 0, MaxHalfOpenRequests |-> 0])
    /\ pre = brk
    /\ last = [op |-> "New", res |-> TRUE, at |-> Epoch]

SupervisorFrame == UNCHANGED <<now, brk, pre, last, mu>>

Tasks == DOMAIN pc \ SupervisorCallers

Running == {t \in Tasks : pc[t] # "exited"}

\* Healthchecker.Start, the whole of it under h.mu
SupervisorStart(g) ==
    /\ pc[g] = "idle"
    /\ spent < MaxSupervisorOps
    /\ spent' = spent + 1
    /\ called' = [op |-> "Start", arg |-> g, res |-> "nil"]
    /\ hist' = [hist EXCEPT !.quiet = FALSE]
    /\ IF mem.hc.started
       THEN UNCHANGED <<mem, pc, loc>>
       ELSE LET ctxs == WithCancel(mem.ctxs, 0)
            IN  /\ mem' = [mem EXCEPT
                              !.ctxs = ctxs,
                              !.hc = [@ EXCEPT !.ctx = Len(ctxs),
                                               !.cancel = Len(ctxs),
                                               !.probes = EmptyMap,
                                               !.started = TRUE,
                                               !.wg = @ + 1]]
                /\ pc' = Append(pc, "reconcile")
                /\ loc' = Append(loc, [TaskLocals EXCEPT !.kind = "manage",
                                                         !.ctx = Len(ctxs)])
    /\ UNCHANGED <<heap, pool>>
    /\ SupervisorFrame

\* Healthchecker.Stop, lines 202-216: under h.mu
SupervisorStopLock(g) ==
    /\ pc[g] = "idle"
    /\ spent < MaxSupervisorOps
    /\ spent' = spent + 1
    /\ IF ~mem.hc.started
       THEN /\ called' = [op |-> "Stop", arg |-> g, res |-> "nil"]
            /\ hist' = [hist EXCEPT !.quiet = TRUE]
            /\ UNCHANGED <<mem, pc, loc>>
       ELSE /\ mem' = [mem EXCEPT
                          !.hc = [@ EXCEPT !.started = FALSE, !.cancel = 0],
                          !.ctxs = CancelAll(@, {mem.hc.probes[id] :
                                                   id \in DOMAIN mem.hc.probes})]
            /\ loc' = [loc EXCEPT ![g].cancel = mem.hc.cancel]
            /\ pc' = [pc EXCEPT ![g] = "cancel"]
            /\ called' = [op |-> "Stop", arg |-> g, res |-> "waiting"]
            /\ hist' = hist
    /\ UNCHANGED <<heap, pool>>
    /\ SupervisorFrame

\* Healthchecker.Stop, lines 219-221: cancel()
SupervisorStopCancel(g) ==
    /\ pc[g] = "cancel"
    /\ mem' = IF loc[g].cancel = 0 THEN mem
              ELSE [mem EXCEPT !.ctxs = CancelCtx(@, loc[g].cancel)]
    /\ pc' = [pc EXCEPT ![g] = "wait"]
    /\ UNCHANGED <<heap, pool, hist, called, spent, loc>>
    /\ SupervisorFrame

\* Healthchecker.Stop, lines 223-231: h.wg.Wait() has returned
SupervisorStopDone(g) ==
    /\ pc[g] = "wait"
    /\ mem.hc.wg = 0
    /\ called' = [op |-> "Stop", arg |-> g, res |-> "nil"]
    /\ hist' = [hist EXCEPT !.quiet = TRUE]
    /\ pc' = [pc EXCEPT ![g] = "idle"]
    /\ UNCHANGED <<heap, pool, mem, spent, loc>>
    /\ SupervisorFrame

\* Healthchecker.Stop, lines 232-233: ten seconds have passed first
SupervisorStopTimeout(g) ==
    /\ pc[g] = "wait"
    /\ mem.hc.wg > 0
    /\ called' = [op |-> "Stop", arg |-> g, res |-> "error"]
    /\ pc' = [pc EXCEPT ![g] = "idle"]
    /\ UNCHANGED <<heap, pool, mem, hist, spent, loc>>
    /\ SupervisorFrame

\* Pool.Add(id, u, 1)
SupervisorAdd(g, id) ==
    /\ pc[g] = "idle"
    /\ spent < MaxSupervisorOps
    /\ spent' = spent + 1
    /\ heap' = Append(heap, NewBackend(id, 1, CircuitConfig(pool.config)))
    /\ pool' = [pool EXCEPT !.backends = Append(@, Len(heap) + 1)]
    /\ called' = [op |-> "Add", arg |-> g, res |-> "nil"]
    /\ UNCHANGED <<mem, hist, pc, loc>>
    /\ SupervisorFrame

\* Pool.Remove(id)
SupervisorRemove(g, id) ==
    /\ pc[g] = "idle"
    /\ spent < MaxSupervisorOps
    /\ spent' = spent + 1
    /\ LET idx == IndexOfID(heap, pool.backends, id)
       IN  pool' = IF idx = 0 THEN pool
                   ELSE [pool EXCEPT !.backends = filterSlice(@, idx)]
    /\ called' = [op |-> "Remove", arg |-> g, res |-> "nil"]
    /\ UNCHANGED <<heap, mem, hist, pc, loc>>
    /\ SupervisorFrame

\* reconcile, lines 254-258: the list is read and currentIDs built
ReconcileList(t) ==
    /\ pc[t] = "reconcile"
    /\ loc' = [loc EXCEPT ![t].ids = currentIDs(heap, pool.backends),
                          ![t].list = pool.backends]
    /\ pc' = [pc EXCEPT ![t] = "locked"]
    /\ UNCHANGED <<heap, pool, mem, hist, called, spent>>
    /\ SupervisorFrame

\* reconcile, lines 260-275: under h.mu
ReconcileLocked(t) ==
    /\ pc[t] = "locked"
    /\ LET r == reconcileLocked(mem.hc, mem.ctxs, loc[t].ids)
       IN  /\ mem' = [mem EXCEPT !.hc = r.hc, !.ctxs = r.ctxs]
           /\ pc' = [pc EXCEPT ![t] = "select"]
                        \o [i \in 1..Len(r.spawned) |-> "loop"]
           /\ loc' = [loc EXCEPT ![t].passes = @ + 1]
                        \o [i \in 1..Len(r.spawned) |->
                               [TaskLocals EXCEPT
                                   !.kind = "probe",
                                   !.ctx = r.spawned[i].ctx,
                                   !.backend = r.spawned[i].backend]]
    /\ UNCHANGED <<heap, pool, hist, called, spent>>
    /\ SupervisorFrame

\* manageProbes, lines 243-250: the ticker fires
ManageTick(t) ==
    /\ pc[t] = "select"
    /\ loc[t].passes < MaxPasses
    /\ pc' = [pc EXCEPT ![t] = "reconcile"]
    /\ UNCHANGED <<heap, pool, mem, hist, called, spent, loc>>
    /\ SupervisorFrame

\* manageProbes, lines 245-246: h.ctx is done.  h.ctx is read without the
\* lock while Start writes it: the context seen is the one of the field or
\* the one the task was started with.
ManageExit(t) ==
    /\ pc[t] = "select"
    /\ \E c \in {mem.hc.ctx, loc[t].ctx} : Done(mem.ctxs, c)
    /\ pc' = [pc EXCEPT ![t] = "exited"]
    /\ mem' = [mem EXCEPT !.hc.wg = @ - 1]
    /\ UNCHANGED <<heap, pool, hist, called, spent, loc>>
    /\ SupervisorFrame

\* probeLoop returns on ctx.Done(); then delete(h.probes, b.ID) under h.mu
\* and wg.Done().
ProbeExit(t) ==
    /\ pc[t] = "loop"
    /\ Done(mem.ctxs, loc[t].ctx)
    /\ pc' = [pc EXCEPT ![t] = "exited"]
    /\ mem' = [mem EXCEPT !.hc.probes = MapDelete(@, heap[loc[t].backend].ID),
                          !.hc.wg = @ - 1]
    /\ UNCHANGED <<heap, pool, hist, called, spent, loc>>
    /\ SupervisorFrame

NextSupervisor ==
    \/ \E g \in SupervisorCallers : SupervisorStart(g)
    \/ \E g \in SupervisorCallers : SupervisorStopLock(g)
    \/ \E g \in SupervisorCallers : SupervisorStopCancel(g)
    \/ \E g \in SupervisorCallers : SupervisorStopDone(g)
    \/ \E g \in SupervisorCallers : SupervisorStopTimeout(g)
    \/ \E g \in SupervisorCallers : SupervisorAdd(g, "a")
    \/ \E g \in SupervisorCallers : SupervisorRemove(g, "a")
    \/ \E t \in Tasks : ReconcileList(t)
    \/ \E t \in Tasks : ReconcileLocked(t)
    \/ \E t \in Tasks : ManageTick(t)
    \/ \E t \in Tasks : ManageExit(t)
    \/ \E t \in Tasks : ProbeExit(t)

SpecSupervisor == InitSupervisor /\ [][NextSupervisor]_vars

\* C22: a Start made while started creates no task; a Stop made while not
\* started changes nothing and returns nil; and from the moment a Stop has
\* returned nil until Start is called again, no reconciliation or probe task
\* of the Healthchecker is running.
C22_StartStopIdempotent ==
    [][/\ (mem.hc.started /\ spent' = spent + 1 /\ called'.op = "Start")
              => pc' = pc /\ mem' = mem
       /\ (~mem.hc.started /\ spent' = spent + 1 /\ called'.op = "Stop")
              => pc' = pc /\ mem' = mem /\ called'.res = "nil"
       /\ hist'.quiet => Running' = {}]_vars

\* What does hold: a Stop that found the Healthchecker started returns nil
\* only when every task has exited.
StopWaitsForTasks ==
    [][(\E g \in SupervisorCallers : pc[g] = "wait" /\ pc'[g] = "idle"
                                     /\ called'.res = "nil")
          => Running' = {}]_vars

\* The backends of the pool's list, and the probe tasks still running whose
\* context has not been cancelled.
ListedBackends == {pool.backends[i] : i \in 1..Len(pool.backends)}

Probing ==
    {t \in Running : loc[t].kind = "probe" /\ ~Done(mem.ctxs, loc[t].ctx)}

\* C23: when a pass of reconcile ends on a started Healthchecker and the
\* pool's list is the one the pass read, every backend of the list is the
\* backend of a running probe task and every running probe task has a backend
\* of the list.
C23_ReconcileCovers ==
    [][(\E t \in Tasks :
           /\ pc[t] = "locked" /\ pc'[t] = "select"
           /\ loc[t].list = pool.backends
           /\ mem.hc.started)
          => /\ \A h \in ListedBackends' : \E t \in Probing' : loc'[t].backend = h
             /\ \A t \in Probing' : loc'[t].backend \in ListedBackends']_vars

----------------------------------------------------------------------------
(* SpecParams: Routers built from prefixes with parameters, and looked up *)

\* Path prefixes as configured: /:x, /:x/*, /:x/:x, /:x/:y, /a/:y, /:x/b,
\* /:y/b
ParamAddPaths ==
    {<<"/", ":x">>, <<"/", ":x", "/", "*">>, <<"/", ":x", "/", ":x">>,
     <<"/", ":x", "/", ":y">>, <<"/", "a", "/", ":y">>,
     <<"/", ":x", "/", "b">>, <<"/", ":y", "/", "b">>}

\* Request paths: /p, /a, /p/q, /a/q, /p/b, /p/q/r
ParamLookupPaths ==
    {<<"/", "p">>, <<"/", "a">>, <<"/", "p", "/", "q">>,
     <<"/", "a", "/", "q">>, <<"/", "p", "/", "b">>,
     <<"/", "p", "/", "q", "/", "r">>}

NextParams ==
    \/ \E r \in 1..Len(mem.routers), path \in ParamAddPaths :
          CallRouterAdd(r, <<"h">>, path, 1)
    \/ \E r \in 1..Len(mem.routers), path \in ParamLookupPaths :
          CallRouterLookup(r, <<"h">>, path)

SpecParams == InitRouter /\ [][NextParams]_vars

\* The segments of the prefix of a Route, and the positions of its
\* parameter segments.
PrefixOf(route) == pathToSegments(normalizePrefix(mem.routes[route].Prefix))

ParamPositions(route) ==
    {i \in 1..Len(PrefixOf(route)) : PrefixOf(route)[i] \in ParamSegments}

\* The parameter map of the outcome o of a Lookup of the request segments req
\* binds the names of the parameter segments of the returned prefix to the
\* request segments at their positions, and no other name.
ParamsExact(o, req) ==
    IF o.found
    THEN /\ DOMAIN o.params =
               {paramNameOf(PrefixOf(o.route)[i]) : i \in ParamPositions(o.route)}
         /\ \A i \in ParamPositions(o.route) :
               /\ paramNameOf(PrefixOf(o.route)[i]) \in DOMAIN o.params
               /\ o.params[paramNameOf(PrefixOf(o.route)[i])] = req[i]
    ELSE o.params = EmptyMap

\* C31: a successful Lookup returns one binding for each parameter segment
\* of the returned prefix, name to request segment, and nothing else; a failed
\* Lookup returns no parameters.
C31_ParamsExact ==
    called.op = "Lookup" =>
        ParamsExact(called.res, pathToSegments(normalizePrefix(called.path)))

\* No prefix registered so far has two parameter segments of one name.
NamesDistinct ==
    \A route \in 1..Len(mem.routes) :
        \A i, j \in ParamPositions(route) :
            PrefixOf(route)[i] = PrefixOf(route)[j] => i = j

\* What does hold: the same while no registered prefix repeats a name.
ParamsExactWhenNamesDistinct == NamesDistinct => C31_ParamsExact

\* A Lookup that returned /:x/b after the parameter child :y had been tried
\* and given up, or the other way round.
ParamsBacktracked ==
    /\ called.op = "Lookup"
    /\ called.res.found
    /\ NamesDistinct
    /\ Len(PrefixOf(called.res.route)) = 2
    /\ PrefixOf(called.res.route)[2] = ":y"
    /\ DOMAIN called.res.params = {"x", "y"}
    /\ \E route \in 1..Len(mem.routes) : PrefixOf(route) = <<":y", "b">>

-----------------------------------------------------------------------------
(* The range of the half-open slot counter, under Spec *)

\* C34: after any sequence of Allow, RecordSuccess, RecordProbeSuccess and
\* RecordFailure calls the half-open in-flight counter, read as the uint32
\* it is, lies in 0..MaxHalfOpenRequests (the limit tryAcquireHalfOpenSlot
\* uses): it has not wrapped below zero to 2^32-1.
C34_InFlightInRange ==
    /\ ~U32Less(brk.halfOpenInFlight, 0)
    /\ ~U32Less(Limit, brk.halfOpenInFlight)

-----------------------------------------------------------------------------
(* Specification SpecEdges: NumEdgesCallers goroutines, each calling Allow   *)
(* once as the steps of the code, while other goroutines make up to          *)
(* MaxRecords calls of RecordSuccess, RecordProbeSuccess and RecordFailure   *)
(* and the clock may advance.  A Record call holds b.mu from its first line  *)
(* to its last, so it is one step taken while the mutex is free.  The        *)
(* history records when the breaker last entered Open and the open-timeout   *)
(* it was given then.                                                        *)

MaxRecords == 2
NumEdgesCallers == 2

EdgesCallers == 1..NumEdgesCallers

InitEdges ==
    /\ \E cfg \in RawConfigs :
          /\ cfg.FailureThreshold = 1
          /\ cfg.Timeout # 0
          /\ cfg.MaxHalfOpenRequests # 0
          /\ brk = RecordFailure(New(cfg), Epoch)
    /\ now = Epoch + brk.openTimeout + 1
    /\ pre = brk
    /\ last = [op |-> "RecordFailure", res |-> TRUE, at |-> Epoch]
    /\ hist = [entered |-> Epoch, timeout |-> brk.openTimeout]
    /\ pc = [g \in Callers |-> "idle"]
    /\ loc = [g \in Callers |-> NoLocals]
    /\ mu = 0
    /\ NoPool

EdgesFrame(op) ==
    /\ pre' = brk
    /\ last' = [op |-> op, res |-> TRUE, at |-> now]
    /\ hist' = IF brk.state # Open /\ brk'.state = Open
               THEN [entered |-> now, timeout |-> brk'.openTimeout]
               ELSE hist
    /\ UNCHANGED <<heap, pool, called, mem>>

EdgesTick ==
    /\ now < Epoch + MaxTime
    /\ now' = now + 1
    /\ UNCHANGED <<brk, seqVars, goVars, poolVars, routerVars>>

EdgesAllow(g) ==
    /\ \/ AllowLoadState(g)
       \/ CheckNow(g)
       \/ CheckLoadOpenTime(g)
       \/ CheckLoadTimeout(g)
       \/ CheckCAS(g)
       \/ CheckLock(g)
       \/ HalfOpenStoreState(g)
       \/ HalfOpenStoreOpenTime(g)
       \/ HalfOpenStoreInFlight(g)
       \/ HalfOpenStoreTimeout(g)
       \/ CheckUnlock(g)
       \/ CheckReloadState(g)
       \/ AcquireLoad(g)
       \/ AcquireCAS(g)
    /\ EdgesFrame("Allow")
    /\ UNCHANGED spent

EdgesRecord(op, b1) ==
    /\ mu = 0
    /\ spent < MaxRecords
    /\ spent' = spent + 1
    /\ brk' = b1
    /\ EdgesFrame(op)
    /\ UNCHANGED <<now, goVars>>

EdgesRecordSuccess == EdgesRecord("RecordSuccess", RecordSuccess(brk))

EdgesRecordProbeSuccess == EdgesRecord("RecordProbeSuccess", RecordProbeSuccess(brk))

EdgesRecordFailure == EdgesRecord("RecordFailure", RecordFailure(brk, now))

NextEdges ==
    \/ EdgesTick
    \/ \E g \in EdgesCallers : EdgesAllow(g)
    \/ EdgesRecordSuccess
    \/ EdgesRecordProbeSuccess
    \/ EdgesRecordFailure

SpecEdges == InitEdges /\ [][NextEdges]_vars

StateEdges ==
    {<<Closed, Open>>, <<Open, HalfOpen>>, <<HalfOpen, Closed>>, <<HalfOpen, Open>>}

\* C35: in every interleaving of Allow, RecordSuccess, RecordProbeSuccess
\* and RecordFailure calls, a step that changes the state of the breaker
\* follows one of the edges Closed->Open, Open->HalfOpen, HalfOpen->Closed,
\* HalfOpen->Open, and a step that leaves Open is either a RecordProbeSuccess
\* or is taken when more than the open-timeout given at the entry into Open
\* has passed since that entry.
C35_StateEdges ==
    [][/\ brk'.state # brk.state => <<brk.state, brk'.state>> \in StateEdges
       /\ brk.state = Open /\ brk'.state # Open =>
              \/ last'.op = "RecordProbeSuccess"
              \/ now - hist.entered > hist.timeout]_vars

\* The first half alone: every change of state follows one of the four edges.
EdgesOnly ==
    [][brk'.state # brk.state => <<brk.state, brk'.state>> \in StateEdges]_vars

\* The second half alone: Open is left by a probe success or after the
\* open-timeout counted from the entry.
OpenKept ==
    [][brk.state = Open /\ brk'.state # Open =>
          \/ last'.op = "RecordProbeSuccess"
          \/ now - hist.entered > hist.timeout]_vars

-----------------------------------------------------------------------------
(* Outcomes of earlier requests while HalfOpen, under SpecTrial *)

\* C37: while the breaker is HalfOpen and no request admitted in this
\* HalfOpen period is outstanding, a RecordSuccess or RecordFailure (which
\* is then the outcome of a request admitted before the breaker last opened)
\* leaves the success count, the half-open in-flight counter and the state
\* as they were.
C37_StaleOutcomeIgnored ==
    [][/\ brk.state = HalfOpen
       /\ hist.trials = 0
       /\ last'.op \in {"RecordSuccess", "RecordFailure"}
       => /\ brk'.successes = brk.successes
          /\ brk'.halfOpenInFlight = brk.halfOpenInFlight
          /\ brk'.state = brk.state]_vars

-----------------------------------------------------------------------------
(* Half-open slots taken by Pool.Next, under SpecPool *)

\* C36: a Next call leaves the half-open in-flight count of every backend
\* other than the one it returns as it was.
C36_SlotOnlyOnReturned ==
    [][called'.op = "Next" /\ spent' = spent + 1 =>
          \A h \in Handles :
              h # called'.res =>
                  heap'[h].Circuit.halfOpenInFlight =
                      heap[h].Circuit.halfOpenInFlight]_vars

-----------------------------------------------------------------------------
(* SpecDispatch: WaitForDrain of goroutine 1 beside StartDraining and the    *)
(* request handlers of the proxy.  A handler is Proxy.ServeHTTP from         *)
(* route.NextBackend() on: Pool.Next, then IncrActive on the backend it      *)
(* returned, then the request, then the deferred DecrActive.                 *)

MaxHandlerCalls == 2

HandlerLocals == [chosen |-> 0, served |-> 0]

Handlers == Members \ {1}

InitDispatch ==
    /\ now = Epoch
    /\ NoRouter
    /\ \E ids \in DrainFleets :
          LET cfg == CHOOSE c \in PoolConfigs : c.HealthThreshold = 0
          IN  /\ heap = [i \in 1..Len(ids) |->
                            NewBackend(ids[i], 1, CircuitConfig(cfg))]
              /\ pool = [config |-> cfg,
                         backends |-> [i \in 1..Len(ids) |-> i],
                         counter |-> 0]
    /\ hist = 0
    /\ called = [op |-> "none", arg |-> 0, res |-> FALSE]
    /\ spent = 0
    /\ pc = [g \in Members |-> "idle"]
    /\ loc = [g \in Members |-> IF g = 1 THEN DrainLocals ELSE HandlerLocals]
    /\ mu = 0
    /\ brk = New([FailureThreshold |-> 0, SuccessThreshold |-> 0,
                  Timeout |-> 0, MaxHalfOpenRequests |-> 0])
    /\ pre = brk
    /\ last = [op |-> "New", res |-> TRUE, at |-> Epoch]

\* part_002, line 70: backend, err := route.NextBackend(); the handler
\* returns when there is none.
HandlerNext(g) ==
    /\ pc[g] = "idle"
    /\ loc[g].served < MaxHandlerCalls
    /\ LET r == PoolNext(pool, heap, now)
       IN  /\ heap' = r.heap
           /\ pool' = [pool EXCEPT !.counter = r.counter]
           /\ loc' = [loc EXCEPT ![g].chosen = r.chosen, ![g].served = @ + 1]
           /\ pc' = [pc EXCEPT ![g] = IF r.chosen = 0 THEN "idle" ELSE "chosen"]
    /\ UNCHANGED <<now, spent, called>>
    /\ DrainFrame

\* line 76: backend.Meta.IncrActive()
HandlerIncrActive(g) ==
    /\ pc[g] = "chosen"
    /\ heap' = [heap EXCEPT ![loc[g].chosen].Meta = IncrActive(@)]
    /\ pc' = [pc EXCEPT ![g] = "serving"]
    /\ UNCHANGED <<now, pool, spent, called, loc>>
    /\ DrainFrame

\* line 77, deferred: backend.Meta.DecrActive() when the handler returns.
HandlerDecrActive(g) ==
    /\ pc[g] = "serving"
    /\ heap' = [heap EXCEPT ![loc[g].chosen].Meta = DecrActive(@)]
    /\ pc' = [pc EXCEPT ![g] = "idle"]
    /\ loc' = [loc EXCEPT ![g].chosen = 0]
    /\ UNCHANGED <<now, pool, spent, called>>
    /\ DrainFrame

NextDispatch ==
    \/ DrainTick
    \/ \E id \in IDs : DrainStartDraining(id)
    \/ \E g \in Handlers : HandlerNext(g)
    \/ \E g \in Handlers : HandlerIncrActive(g)
    \/ \E g \in Handlers : HandlerDecrActive(g)
    \/ \E g \in Members, timeout \in DrainTimeouts :
          WaitForDrainEnter(g, "a", timeout)
    \/ \E g \in Members : WaitForDrainCheck(g)
    \/ \E g \in Members : WaitForDrainPoll(g)
    \/ \E g \in Members : WaitForDrainWake(g)

SpecDispatch == InitDispatch /\ [][NextDispatch]_vars

\* WaitForDrain has returned true.
Drained == pc[1] = "done" /\ called.op = "WaitForDrain" /\ called.res

\* C38: once WaitForDrain(id) has returned true, a backend with the id that
\* is draining has no active connection and no handler holds it as the
\* backend Pool.Next returned, about to dispatch to it.
C38_NoDispatchAfterDrain ==
    Drained =>
        \A h \in Handles :
            heap[h].ID = called.arg /\ IsDraining(heap[h]) =>
                /\ heap[h].Meta.ActiveConns = 0
                /\ \A g \in Handlers :
                      pc[g] \in {"chosen", "serving"} => loc[g].chosen # h

\* What does hold: after WaitForDrain(id) has returned true, Pool.Next
\* returns no draining backend, so no handler that calls it afterwards
\* dispatches to the backend.
NextSkipsDraining ==
    [][\A g \in Handlers :
          pc[g] = "idle" /\ pc'[g] = "chosen" =>
              ~IsDraining(heap[loc'[g].chosen])]_vars

-----------------------------------------------------------------------------
(* SpecPick: one strategy called again and again with the candidates that    *)
(* Pool.Next would hand it, the healthy and non-draining backends of a list  *)
(* of three, while probes set and clear the healthy flag between the calls.  *)

MaxPicks == 4

MaxFlips == 2

Strategies == {"RoundRobin", "LeastConnections", "WeightedRR"}

\* leastconn.LeastConnections.Next on a non-empty list: the first backend
\* with the fewest active connections.
leastconnNext(hp, backends) ==
    LET conns(i) == hp[backends[i]].Meta.ActiveConns
        best == CHOOSE i \in 1..Len(backends) :
                    /\ \A j \in 1..Len(backends) : conns(i) <= conns(j)
                    /\ \A j \in 1..(i - 1) : conns(j) > conns(i)
    IN  backends[best]

\* hist holds the strategy of the pool, the calls made and whether a call
\* has panicked; called the candidates of the last call and what it returned.
InitPick ==
    /\ now = Epoch
    /\ NoRouter
    /\ \E w \in [WRRHandles -> 1..MaxWeight], conns \in [WRRHandles -> 0..1] :
          heap = [h \in WRRHandles |->
                     LET b == NewBackend(<<"a", "b", "c">>[h], w[h],
                                         [FailureThreshold |-> 0,
                                          SuccessThreshold |-> 0,
                                          Timeout |-> 0,
                                          MaxHalfOpenRequests |-> 0])
                     IN  [b EXCEPT !.Meta.ActiveConns = conns[h]]]
    /\ pool = [config |-> 0, backends |-> <<1, 2, 3>>, counter |-> 0]
    /\ \E strategy \in Strategies :
          hist = [strategy |-> strategy, calls |-> 0, panics |-> FALSE]
    /\ called = [op |-> "New", arg |-> <<>>, res |-> 0]
    /\ spent = 0
    /\ pc = [g \in Members |-> "idle"]
    /\ loc = [g \in Members |-> RRLocals]
    /\ mu = 0
    /\ brk = New([FailureThreshold |-> 0, SuccessThreshold |-> 0,
                  Timeout |-> 0, MaxHalfOpenRequests |-> 0])
    /\ pre = brk
    /\ last = [op |-> "New", res |-> TRUE, at |-> Epoch]

PickFrame == UNCHANGED <<now, brk, pre, last, goVars, routerVars>>

\* A probe outcome sets or clears the healthy flag of backend h.
PickSetHealthy(h, healthy) ==
    /\ spent < MaxFlips
    /\ ~hist.panics
    /\ IsHealthy(heap[h]) # healthy
    /\ spent' = spent + 1
    /\ heap' = [heap EXCEPT ![h] = SetHealthy(@, healthy).b]
    /\ UNCHANGED <<pool, hist, called>>
    /\ PickFrame

\* p.balancer.Next(candidates) at the end of Pool.Next, reached with at
\* least one candidate.
PickNext(candidates, chosen, panics) ==
    /\ called' = [op |-> "Next", arg |-> candidates, res |-> chosen]
    /\ hist' = [hist EXCEPT !.calls = @ + 1, !.panics = panics]
    /\ UNCHANGED spent
    /\ PickFrame

PickReady(strategy) ==
    /\ hist.strategy = strategy
    /\ hist.calls < MaxPicks
    /\ ~hist.panics
    /\ Len(filterCandidates(heap, pool.backends)) > 0

PickRoundRobin ==
    /\ PickReady("RoundRobin")
    /\ LET candidates == filterCandidates(heap, pool.backends)
       IN  /\ pool' = [pool EXCEPT !.counter = @ + 1]
           /\ heap' = heap
           /\ PickNext(candidates, roundrobinPick(pool.counter + 1, candidates),
                       FALSE)

PickLeastConnections ==
    /\ PickReady("LeastConnections")
    /\ LET candidates == filterCandidates(heap, pool.backends)
       IN  /\ UNCHANGED <<pool, heap>>
           /\ PickNext(candidates, leastconnNext(heap, candidates), FALSE)

PickWeightedRR ==
    /\ PickReady("WeightedRR")
    /\ LET candidates == filterCandidates(heap, pool.backends)
           r == WeightedRRNext(heap, candidates, 1)
       IN  /\ heap' = r.heap
           /\ pool' = pool
           /\ PickNext(candidates, r.chosen, r.panics)

NextPick ==
    \/ \E h \in WRRHandles, healthy \in BOOLEAN : PickSetHealthy(h, healthy)
    \/ PickRoundRobin
    \/ PickLeastConnections
    \/ PickWeightedRR

SpecPick == InitPick /\ [][NextPick]_vars

ReturnsCandidate ==
    called.op = "Next" =>
        /\ ~hist.panics
        /\ \E i \in 1..Len(called.arg) : called.arg[i] = called.res

\* C39: a strategy called with a non-empty candidate list returns one of the
\* candidates and does not fail, whatever candidates the earlier calls were
\* given.
C39_StrategyReturnsCandidate == ReturnsCandidate

\* What does hold: the same for round-robin and least-connections.
OthersReturnCandidate == hist.strategy # "WeightedRR" => ReturnsCandidate

\* And for weighted round-robin while the eligible set has not changed.
FixedSetReturnsCandidate == spent = 0 => ReturnsCandidate

-----------------------------------------------------------------------------
(* SpecIDs: a Pool from backendpool.New, empty, and then Add and Remove      *)
(* calls only.  Router.Add fills its pool by one Add per service URL, with   *)
(* the id made of the host and the URL, so its pools are among these.        *)

InitIDs ==
    /\ InitPool
    /\ pool.backends = <<>>

NextIDs ==
    \/ \E id \in IDs : CallAdd(id)
    \/ \E id \in IDs : CallRemove(id)

SpecIDs == InitIDs /\ [][NextIDs]_vars

\* C40: no two backends of the pool's list have the same id.
C40_IDsUnique ==
    \A i, j \in 1..Len(pool.backends) :
        heap[pool.backends[i]].ID = heap[pool.backends[j]].ID => i = j

\* Remove(id) on a list that holds the id twice has left one of them.
RemoveLeftOne ==
    /\ called.op = "Remove"
    /\ called.res # 0
    /\ \E i \in 1..Len(pool.backends) : heap[pool.backends[i]].ID = called.arg

-----------------------------------------------------------------------------
(* One probe task per Backend id, under SpecSupervisor *)

ProbeTasks(id) ==
    {t \in Running : loc[t].kind = "probe" /\ heap[loc[t].backend].ID = id}

\* C33: at no time do two probe tasks of the Healthchecker that have not
\* exited belong to backends of one id.
C33_OneProbePerID ==
    \A id \in IDs : Cardinality(ProbeTasks(id)) <= 1

\* The same, leaving out the tasks whose context is already cancelled and
\* that are on their way out.
OneLiveProbePerID ==
    \A id \in IDs : Cardinality(ProbeTasks(id) \cap Probing) <= 1

-----------------------------------------------------------------------------
(* SpecRecovery: a pool under a started Healthchecker.  The reconcile pass   *)
(* keeps one probe task per id, each bound to the Backend it was started     *)
(* with; a probe task probes its Backend again and again; requests go        *)
(* through Pool.Next and report their outcome; Add, Remove and               *)
(* StartDraining change the list.  Probes fail at most MaxProbeFails times   *)
(* and at most MaxSent requests are sent, so from some point on every probe  *)
(* succeeds.  hist.probes maps an id to the Backend of its probe task,       *)
(* hist.pending is the Backend of the request in progress (0 for none).      *)
(* SpecRecoveryFair adds that the ticker of manageProbes and the timer of    *)
(* every probeLoop keep firing.                                              *)

MaxProbeFails == 1

MaxSent == 2

MaxListOps == 2

MaxRecoveryBackends == 3

InitRecovery ==
    /\ now = Epoch
    /\ NoRouter
    /\ \E cfg \in PoolConfigs :
          /\ heap = <<NewBackend("a", 1, CircuitConfig(cfg))>>
          /\ pool = [config |-> cfg, backends |-> <<1>>, counter |-> 0]
    /\ hist = [probes |-> EmptyMap, fails |-> 0, pending |-> 0, sent |-> 0]
    /\ called = [op |-> "New", arg |-> 0, res |-> 0]
    /\ spent = 0
    /\ brk = New([FailureThreshold |-> 0, SuccessThreshold |-> 0,
                  Timeout |-> 0, MaxHalfOpenRequests |-> 0])
    /\ pre = brk
    /\ last = [op |-> "New", res |-> TRUE, at |-> Epoch]
    /\ pc = [g \in Callers |-> "idle"]
    /\ loc = [g \in Callers |-> NoLocals]
    /\ mu = 0

RecoveryFrame == UNCHANGED <<brk, pre, last, goVars, routerVars, called>>

RecoveryTick ==
    /\ now < Epoch + MaxPoolTime
    /\ \E h \in Handles : heap[h].Circuit.state = Open
    /\ now' = now + 1
    /\ UNCHANGED <<heap, pool, hist, spent>>
    /\ RecoveryFrame

\* One pass of reconcile on the started Healthchecker: the probe task of an
\* id that left the list is cancelled and forgotten, an id of the list with
\* no probe task gets one for the Backend currentIDs holds; an id that has a
\* probe task keeps it, whatever Backend the task was started with.
RecoveryReconcile ==
    /\ LET ids == currentIDs(heap, pool.backends)
       IN  hist' = [hist EXCEPT !.probes =
                       [id \in DOMAIN ids |->
                           IF id \in DOMAIN hist.probes THEN hist.probes[id]
                           ELSE ids[id]]]
    /\ UNCHANGED <<now, heap, pool, spent>>
    /\ RecoveryFrame

\* ProbeSuccessCount is only ever compared with the recovery threshold, so
\* it is kept at the threshold once it has reached it.
CapProbeSuccessCount(cfg, b) ==
    LET recoveryThreshold ==
            IF cfg.ProbeRecoveryThreshold = 0 THEN DefaultProbeRecoveryThreshold
            ELSE cfg.ProbeRecoveryThreshold
    IN  [b EXCEPT !.Meta.ProbeSuccessCount = Min(@, recoveryThreshold)]

\* probeLoop, lines 306-310, of the probe task of id: the timer fires, and
\* unless the Backend is draining the probe runs and reports its result.
RecoveryProbe(id, ok) ==
    /\ id \in DOMAIN hist.probes
    /\ LET h == hist.probes[id]
       IN  /\ ~IsDraining(heap[h])
           /\ IF ok
              THEN /\ heap' = [heap EXCEPT ![h] =
                                  CapProbeSuccessCount(pool.config,
                                      PoolMarkHealthy(pool.config, @))]
                   /\ hist' = hist
              ELSE /\ hist.fails < MaxProbeFails
                   /\ heap' = [heap EXCEPT ![h] =
                                  PoolMarkUnhealthy(pool.config, @, now)]
                   /\ hist' = [hist EXCEPT !.fails = @ + 1]
    /\ UNCHANGED <<now, pool, spent>>
    /\ RecoveryFrame

RecoveryListOp ==
    /\ spent < MaxListOps
    /\ spent' = spent + 1
    /\ UNCHANGED <<now, hist>>
    /\ RecoveryFrame

\* Pool.Add(id, u, 1)
RecoveryAdd(id) ==
    /\ Len(heap) < MaxRecoveryBackends
    /\ heap' = Append(heap, NewBackend(id, 1, CircuitConfig(pool.config)))
    /\ pool' = [pool EXCEPT !.backends = Append(@, Len(heap) + 1)]
    /\ RecoveryListOp

\* Pool.Remove(id)
RecoveryRemove(id) ==
    /\ LET idx == IndexOfID(heap, pool.backends, id)
       IN  pool' = IF idx = 0 THEN pool
                   ELSE [pool EXCEPT !.backends = filterSlice(@, idx)]
    /\ heap' = heap
    /\ RecoveryListOp

\* Pool.StartDraining(id)
RecoveryStartDraining(id) ==
    /\ LET idx == IndexOfID(heap, pool.backends, id)
       IN  heap' = IF idx = 0 THEN heap
                   ELSE [heap EXCEPT ![pool.backends[idx]] =
                                         SetDraining(@, TRUE)]
    /\ pool' = pool
    /\ RecoveryListOp

\* A request: Pool.Next, and the Backend it returned is held until the
\* outcome is reported.
RecoveryNext ==
    /\ hist.pending = 0
    /\ hist.sent < MaxSent
    /\ LET r == PoolNext(pool, heap, now)
       IN  /\ heap' = r.heap
           /\ pool' = [pool EXCEPT !.counter = r.counter]
           /\ hist' = [hist EXCEPT !.pending = r.chosen, !.sent = @ + 1]
    /\ UNCHANGED <<now, spent>>
    /\ RecoveryFrame

\* The request ends: Pool.RecordSuccess or Pool.RecordFailure.
RecoveryOutcome(ok) ==
    /\ hist.pending # 0
    /\ heap' = [heap EXCEPT ![hist.pending] =
                    IF ok THEN PoolRecordSuccess(pool.config, @)
                    ELSE PoolRecordFailure(pool.config, @, now).b]
    /\ hist' = [hist EXCEPT !.pending = 0]
    /\ UNCHANGED <<now, pool, spent>>
    /\ RecoveryFrame

NextRecovery ==
    \/ RecoveryTick
    \/ RecoveryReconcile
    \/ \E id \in IDs, ok \in BOOLEAN : RecoveryProbe(id, ok)
    \/ \E id \in IDs : RecoveryAdd(id)
    \/ \E id \in IDs : RecoveryRemove(id)
    \/ \E id \in IDs : RecoveryStartDraining(id)
    \/ RecoveryNext
    \/ \E ok \in BOOLEAN : RecoveryOutcome(ok)

SpecRecovery == InitRecovery /\ [][NextRecovery]_vars

SpecRecoveryFair ==
    /\ SpecRecovery
    /\ WF_vars(RecoveryReconcile)
    /\ \A id \in IDs : WF_vars(\E ok \in BOOLEAN : RecoveryProbe(id, ok))

\* Backend h is in the list and not draining.
InService(h) ==
    /\ h \in Handles
    /\ InList(h)
    /\ ~IsDraining(heap[h])

\* Backend h is healthy and its breaker is Closed.
Recovered(h) ==
    /\ h \in Handles
    /\ IsHealthy(heap[h])
    /\ heap[h].Circuit.state = Closed

\* Backend h is the one the probe task of its id probes.
Probed(h) ==
    /\ h \in Handles
    /\ heap[h].ID \in DOMAIN hist.probes
    /\ hist.probes[heap[h].ID] = h

\* C32: a backend that from some point on stays in the list and is not
\* draining, while every probe succeeds from some point on, is in the end
\* healthy with a Closed breaker, and stays so.
C32_RecoveryLiveness ==
    \A h \in 1..MaxRecoveryBackends :
        <>[]InService(h) => <>[]Recovered(h)

\* What does hold: the same for a backend that is the one its probe task
\* probes.
ProbedRecovers ==
    \A h \in 1..MaxRecoveryBackends :
        <>[](InService(h) /\ Probed(h)) => <>[]Recovered(h)

\* The healthy flag alone, for a backend whose id no other backend of the
\* list has: only a probe success sets the flag again, whatever the clock
\* and the requests do.
EndsHealthy ==
    \A h \in 1..MaxRecoveryBackends :
        <>[](InService(h) /\ C40_IDsUnique) =>
            <>[](h \in Handles /\ IsHealthy(heap[h]))

====
